---- MODULE Spec2Model ----
(***************************************************************************)
(* Docker Control MCP: the authorization gate (server/server.py), the      *)
(* container filter policy and registry adapter (utils/docker_client.py),  *)
(* the audit log (utils/audit_logger.py) and the tool handlers             *)
(* (server/tools/*.py), as state machines.                                 *)
(*                                                                         *)
(* Python strings and byte strings whose content the code inspects are     *)
(* tuples of one-character strings; every Python value that may be of      *)
(* several types is a record with a field t naming its type.               *)
(***************************************************************************)
EXTENDS Integers, Sequences, FiniteSets, TLC

VARIABLES
    _config,         \* config._config: the cached configuration
    mw,              \* the AuthenticationMiddleware instance's fields
    gate,            \* the last request the gate handled and what became of it
    daemon,          \* the Docker daemon's containers, in the daemon's list order
    _docker_client,  \* docker_client._docker_client: None or the cached client
    AUTH_PASSWORD,   \* the process environment's AUTH_PASSWORD
    _audit_logger,   \* audit_logger._audit_logger: None or an AuditLogger
    auditLog,        \* the audit log file: one entry per line
    call,            \* the last tool handler invocation and what it did
    probe,           \* the last direct call of a docker_client function
    loader           \* the watcher thread's load_config and the dicts it built

vars == <<_config, mw, gate, daemon, _docker_client, AUTH_PASSWORD,
          _audit_logger, auditLog, call, probe, loader>>

None == [t |-> "None"]

Range(s) == {s[i] : i \in DOMAIN s}

(***************************************************************************)
(* Strings and bytes                                                       *)
(***************************************************************************)
\* 'Bearer ' (server.py:84)
Bearer == <<"B", "e", "a", "r", "e", "r", " ">>

\* a byte that is not valid UTF-8 (0xff)
XFF == "xff"

\* str.startswith
startswith(s, prefix) ==
    /\ Len(s) >= Len(prefix)
    /\ SubSeq(s, 1, Len(prefix)) = prefix

\* bytes.decode('utf-8'): raises UnicodeDecodeError on an invalid byte
decode(b) ==
    IF \E i \in DOMAIN b : b[i] = XFF
    THEN [ok |-> FALSE, str |-> <<>>]
    ELSE [ok |-> TRUE, str |-> b]

\* dict(scope['headers']).get(name, b''): the last pair of that name wins
RECURSIVE headers_get(_, _)
headers_get(headers, name) ==
    IF headers = <<>> THEN <<>>
    ELSE LET last == headers[Len(headers)]
         IN  IF last[1] = name THEN last[2]
             ELSE headers_get(SubSeq(headers, 1, Len(headers) - 1), name)

(***************************************************************************)
(* Python values read out of a JSON document                               *)
(***************************************************************************)
Str(v) == [t |-> "str", v |-> v]
Dict(items) == [t |-> "dict", items |-> items]
List == [t |-> "list"]
EmptyDict == Dict(<<>>)

\* dict.get(key, default)
dict_get(d, key, default) ==
    IF key \in DOMAIN d.items THEN d.items[key] ELSE default

\* The request bodies: byte text, in fragments.  A tools/call envelope is
\* three fragments, the middle one the JSON literal of params.name.
CallOpen == "{\"method\":\"tools/call\",\"params\":{\"name\":"
CallClose == "}}"
tools_call(literal) == <<CallOpen, literal, CallClose>>

StringLiterals ==
    {"start_container", "stop_container", "restart_container", "restart_stack",
     "compose_up", "compose_down", "compose_restart",
     "list_containers", "get_container_stack", ""}

\* json.loads of a literal in the params.name position
name_literal(lit) ==
    IF lit \in StringLiterals THEN [ok |-> TRUE, value |-> Str(lit)]
    ELSE IF lit = "[\"stop_container\"]" THEN [ok |-> TRUE, value |-> List]
    ELSE IF lit = "null" THEN [ok |-> TRUE, value |-> None]
    ELSE [ok |-> FALSE, value |-> None]

\* json.loads(body): the parsed value, or ok = FALSE where it raises
json_loads(body) ==
    IF body = <<"[]">> THEN [ok |-> TRUE, value |-> List]
    ELSE IF body = <<"{}">> THEN [ok |-> TRUE, value |-> EmptyDict]
    ELSE IF body = <<"{\"method\":\"tools/list\"}">>
        THEN [ok |-> TRUE, value |-> Dict("method" :> Str("tools/list"))]
    ELSE IF body = <<"{\"method\":\"tools/call\"}">>
        THEN [ok |-> TRUE, value |-> Dict("method" :> Str("tools/call"))]
    ELSE IF body = <<"{\"method\":\"tools/call\",\"params\":null}">>
        THEN [ok |-> TRUE,
              value |-> Dict(("method" :> Str("tools/call")) @@ ("params" :> None))]
    ELSE IF body = <<"{\"method\":\"tools/call\",\"params\":{}}">>
        THEN [ok |-> TRUE,
              value |-> Dict(("method" :> Str("tools/call")) @@ ("params" :> EmptyDict))]
    ELSE IF Len(body) = 3 /\ body[1] = CallOpen /\ body[3] = CallClose
            /\ name_literal(body[2]).ok
        THEN [ok |-> TRUE,
              value |-> Dict(("method" :> Str("tools/call")) @@
                             ("params" :> Dict("name" :> name_literal(body[2]).value)))]
    ELSE [ok |-> FALSE, value |-> None]

(***************************************************************************)
(* The ASGI receive channel                                                *)
(***************************************************************************)
HttpRequest(body, more_body) ==
    [type |-> "http.request", body |-> body, more_body |-> more_body]
HttpDisconnect == [type |-> "http.disconnect"]

\* starlette Request.body() over the messages receive() still holds: the
\* chunks up to the first message with more_body = False, joined; ok = FALSE
\* where it raises ClientDisconnect.  Once the messages are used up, the
\* next receive() answers http.disconnect.  rest is what receive() holds
\* afterwards.
RECURSIVE request_body(_)
request_body(stream) ==
    IF stream = <<>> THEN [ok |-> FALSE, body |-> <<>>, rest |-> <<>>]
    ELSE LET message == Head(stream)
         IN  IF message.type = "http.disconnect"
             THEN [ok |-> FALSE, body |-> <<>>, rest |-> Tail(stream)]
             ELSE IF message.more_body
             THEN LET r == request_body(Tail(stream))
                  IN  [ok |-> r.ok, body |-> message.body \o r.body, rest |-> r.rest]
             ELSE [ok |-> TRUE, body |-> message.body, rest |-> Tail(stream)]

(***************************************************************************)
(* The authorization gate: AuthenticationMiddleware                        *)
(***************************************************************************)
\* self.control_tools (server.py:56-63)
control_tools ==
    {"start_container", "stop_container", "restart_container",
     "compose_up", "compose_down", "compose_restart"}

\* AuthenticationMiddleware.__init__: the fields are read once, from the
\* configuration the module loaded at import
AuthenticationMiddleware(config) ==
    [auth_enabled |-> config.auth_enabled,
     password |-> config.password,
     permission_level |-> config.permission_level]

\* server.py:80-87: the credential of a request; ok = FALSE where decode raises
token_of(scope) ==
    LET auth_header == decode(headers_get(scope.headers, "authorization"))
    IN  IF ~auth_header.ok THEN [ok |-> FALSE, token |-> <<>>]
        ELSE IF startswith(auth_header.str, Bearer)
        THEN [ok |-> TRUE,
              token |-> SubSeq(auth_header.str, Len(Bearer) + 1, Len(auth_header.str))]
        ELSE [ok |-> TRUE, token |-> auth_header.str]

\* self.read_only_tools (server.py:46-53)
read_only_tools ==
    {"list_containers", "get_container_status", "get_container_logs",
     "get_container_stats", "check_containers_health", "compose_status"}

\* a variant of the inspection that blocks every tool call whose tool is not
\* one of read_only_tools
check_permission_allowlist(read) ==
    IF ~read.ok THEN "exception"
    ELSE IF read.body = <<>> THEN "pass"
    ELSE LET data == json_loads(read.body)
         IN  IF ~data.ok \/ data.value.t # "dict" THEN "exception"
             ELSE IF dict_get(data.value, "method", None) # Str("tools/call") THEN "pass"
             ELSE LET params == dict_get(data.value, "params", EmptyDict)
                  IN  IF params.t # "dict" THEN "exception"
                      ELSE LET tool_name == dict_get(params, "name", Str(""))
                           IN  IF tool_name.t \in {"list", "dict"} THEN "exception"
                               ELSE IF tool_name.t = "str" /\ tool_name.v \in read_only_tools
                               THEN "pass"
                               ELSE "blocked"

\* a variant of the inspection whose except clause rejects the request
check_permission_fail_closed(read) ==
    IF ~read.ok THEN "blocked"
    ELSE IF read.body = <<>> THEN "pass"
    ELSE LET data == json_loads(read.body)
         IN  IF ~data.ok \/ data.value.t # "dict" THEN "blocked"
             ELSE IF dict_get(data.value, "method", None) # Str("tools/call") THEN "pass"
             ELSE LET params == dict_get(data.value, "params", EmptyDict)
                  IN  IF params.t # "dict" THEN "blocked"
                      ELSE LET tool_name == dict_get(params, "name", Str(""))
                           IN  IF tool_name.t \in {"list", "dict"} THEN "blocked"
                               ELSE IF tool_name.t = "str" /\ tool_name.v \in control_tools
                               THEN "blocked"
                               ELSE "pass"

\* server.py:105-132: the inspection of a body that was read; "blocked" for
\* a control tool, "pass", or "exception" where the try block raises (the
\* except clause logs it and the request goes on)
check_permission(read) ==
    IF ~read.ok THEN "exception"
    ELSE IF read.body = <<>> THEN "pass"
    ELSE LET data == json_loads(read.body)
         IN  IF ~data.ok \/ data.value.t # "dict" THEN "exception"
             ELSE IF dict_get(data.value, "method", None) # Str("tools/call") THEN "pass"
             ELSE LET params == dict_get(data.value, "params", EmptyDict)
                  IN  IF params.t # "dict" THEN "exception"
                      ELSE LET tool_name == dict_get(params, "name", Str(""))
                           IN  IF tool_name.t \in {"list", "dict"} THEN "exception"
                               ELSE IF tool_name.t = "str" /\ tool_name.v \in control_tools
                               THEN "blocked"
                               ELSE "pass"

\* What the downstream application is handed: self.app(scope, receive, send)
\* with the receive channel as the gate left it.  downstream is what the
\* application gets when it reads the request body from that channel.
forward(stream) ==
    LET r == request_body(stream)
    IN  [ok |-> r.ok, body |-> r.body]

NotForwarded == [ok |-> FALSE, body |-> <<>>]

Outcome(status, forwarded, body_read, logged, downstream) ==
    [status |-> status, forwarded |-> forwarded, body_read |-> body_read,
     logged |-> logged, downstream |-> downstream]

\* a variant of __call__ that checks the credential before it looks at the
\* path
AuthenticationMiddleware_call_auth_before_health(self, scope, stream) ==
    IF scope.type # "http"
    THEN Outcome("app", TRUE, FALSE, FALSE, forward(stream))
    ELSE IF self.auth_enabled /\ ~token_of(scope).ok
    THEN Outcome("raised", FALSE, FALSE, FALSE, NotForwarded)
    ELSE IF self.auth_enabled /\ token_of(scope).token # self.password
    THEN Outcome("401", FALSE, FALSE, FALSE, NotForwarded)
    ELSE IF scope.path \in {"/healthz", "/health/deep"}
    THEN Outcome("app", TRUE, FALSE, FALSE, forward(stream))
    ELSE IF self.permission_level = "read-only"
    THEN LET read == request_body(stream)
             verdict == check_permission(read)
         IN  IF verdict = "blocked"
             THEN Outcome("403", FALSE, TRUE, FALSE, NotForwarded)
             ELSE Outcome("app", TRUE, TRUE, verdict = "exception", forward(read.rest))
    ELSE Outcome("app", TRUE, FALSE, FALSE, forward(stream))

\* a variant of __call__ without the test of the scope type: every
\* connection goes through the checks of an HTTP request
AuthenticationMiddleware_call_every_scope(self, scope, stream) ==
    IF scope.path \in {"/healthz", "/health/deep"}
    THEN Outcome("app", TRUE, FALSE, FALSE, forward(stream))
    ELSE IF self.auth_enabled /\ ~token_of(scope).ok
    THEN Outcome("raised", FALSE, FALSE, FALSE, NotForwarded)
    ELSE IF self.auth_enabled /\ token_of(scope).token # self.password
    THEN Outcome("401", FALSE, FALSE, FALSE, NotForwarded)
    ELSE IF self.permission_level = "read-only"
    THEN LET read == request_body(stream)
             verdict == check_permission(read)
         IN  IF verdict = "blocked"
             THEN Outcome("403", FALSE, TRUE, FALSE, NotForwarded)
             ELSE Outcome("app", TRUE, TRUE, verdict = "exception", forward(read.rest))
    ELSE Outcome("app", TRUE, FALSE, FALSE, forward(stream))

\* AuthenticationMiddleware.__call__ (server.py:67-135).  status is "401" or
\* "403" for the response the gate sends, "app" when the application is
\* called, "raised" when an exception leaves __call__.
AuthenticationMiddleware_call(self, scope, stream) ==
    IF scope.type # "http"
    THEN Outcome("app", TRUE, FALSE, FALSE, forward(stream))
    ELSE IF scope.path \in {"/healthz", "/health/deep"}
    THEN Outcome("app", TRUE, FALSE, FALSE, forward(stream))
    ELSE IF self.auth_enabled /\ ~token_of(scope).ok
    THEN Outcome("raised", FALSE, FALSE, FALSE, NotForwarded)
    ELSE IF self.auth_enabled /\ token_of(scope).token # self.password
    THEN Outcome("401", FALSE, FALSE, FALSE, NotForwarded)
    ELSE IF self.permission_level = "read-only"
    THEN LET read == request_body(stream)
             verdict == check_permission(read)
         IN  IF verdict = "blocked"
             THEN Outcome("403", FALSE, TRUE, FALSE, NotForwarded)
             ELSE Outcome("app", TRUE, TRUE, verdict = "exception", forward(read.rest))
    ELSE Outcome("app", TRUE, FALSE, FALSE, forward(stream))

(***************************************************************************)
(* Filter policy and registry adapter: utils/docker_client.py              *)
(***************************************************************************)
\* Python's `x in list`
contains(list, x) == \E i \in DOMAIN list : list[i] = x

\* a variant of is_container_allowed that consults the blacklist before the
\* whitelist
is_container_allowed_blacklist_first(config, container_name) ==
    IF config.blacklist # <<>> /\ contains(config.blacklist, container_name) THEN FALSE
    ELSE IF config.whitelist # <<>> THEN contains(config.whitelist, container_name)
    ELSE TRUE

\* a variant of is_container_allowed that reads the blacklist as a list of
\* the names to allow
is_container_allowed_blacklist_inverted(config, container_name) ==
    IF config.whitelist # <<>> THEN contains(config.whitelist, container_name)
    ELSE IF config.blacklist # <<>> THEN contains(config.blacklist, container_name)
    ELSE TRUE

\* is_container_allowed (docker_client.py:38-63), over the configuration
\* get_config() returns
is_container_allowed(config, container_name) ==
    IF config.whitelist # <<>> THEN contains(config.whitelist, container_name)
    ELSE IF config.blacklist # <<>> THEN ~contains(config.blacklist, container_name)
    ELSE TRUE

\* a variant of the loop of filter_containers whose whitelist branch lacks
\* its continue, so that the checks below it run as well
RECURSIVE filter_loop_no_continue(_, _, _)
filter_loop_no_continue(config, containers, filtered) ==
    IF containers = <<>> THEN filtered
    ELSE LET container == Head(containers)
             rest == Tail(containers)
             listed == IF config.whitelist # <<>>
                          /\ contains(config.whitelist, container.name)
                       THEN Append(filtered, container) ELSE filtered
         IN  IF config.blacklist # <<>>
             THEN filter_loop_no_continue(config, rest,
                     IF ~contains(config.blacklist, container.name)
                     THEN Append(listed, container) ELSE listed)
             ELSE filter_loop_no_continue(config, rest, Append(listed, container))

\* the loop of filter_containers (docker_client.py:86-104)
RECURSIVE filter_loop(_, _, _)
filter_loop(config, containers, filtered) ==
    IF containers = <<>> THEN filtered
    ELSE LET container == Head(containers)
             rest == Tail(containers)
         IN  IF config.whitelist # <<>>
             THEN filter_loop(config, rest,
                     IF contains(config.whitelist, container.name)
                     THEN Append(filtered, container) ELSE filtered)
             ELSE IF config.blacklist # <<>>
             THEN filter_loop(config, rest,
                     IF ~contains(config.blacklist, container.name)
                     THEN Append(filtered, container) ELSE filtered)
             ELSE filter_loop(config, rest, Append(filtered, container))

\* filter_containers (docker_client.py:66-104)
filter_containers(config, containers) ==
    IF config.whitelist = <<>> /\ config.blacklist = <<>> THEN containers
    ELSE filter_loop(config, containers, <<>>)

\* One call on a collaborator: the daemon operation (or "subprocess"), what
\* it was made on, and whether it raised
Op(op, target, raised) == [op |-> op, target |-> target, raised |-> raised]
scope_of(all) == IF all THEN "all" ELSE "running"

\* What the collaborators do in one handler invocation: "connect" makes
\* docker.DockerClient(...) raise, "get" containers.get, "list"
\* containers.list; "op" makes start/stop/restart/logs/stats raise on the
\* containers named in failing.
NoFault == [kind |-> "none", failing |-> {}]
raises(fault, container) == fault.kind = "op" /\ container.name \in fault.failing

ConnectError == "Error while fetching server API version"
APIError == "500 Server Error: Internal Server Error"

\* get_docker_client (docker_client.py:20-35): the cached client, or a new
\* one; ok = FALSE where the constructor's exception is re-raised
get_docker_client(fault) ==
    IF _docker_client # None THEN [ok |-> TRUE, client |-> _docker_client]
    ELSE IF fault.kind = "connect" THEN [ok |-> FALSE, client |-> None]
    ELSE [ok |-> TRUE, client |-> [t |-> "DockerClient"]]

\* client.containers.get(name_or_id): the daemon resolves a name, a short ID
\* or a full ID; 0 stands for docker.errors.NotFound
containers_get(name_or_id) ==
    LET hits == {i \in DOMAIN daemon :
                    name_or_id \in {daemon[i].name, daemon[i].short_id, daemon[i].id}}
    IN  IF hits = {} THEN 0 ELSE CHOOSE i \in hits : TRUE

\* a variant of get_container_by_name_or_id that asks the daemon first and
\* answers None for a container the filter does not allow
get_container_by_name_or_id_none_when_denied(name_or_id, fault) ==
    LET c == get_docker_client(fault)
    IN  IF ~c.ok
        THEN [kind |-> "raised", text |-> <<ConnectError>>, index |-> 0,
              ops |-> <<>>, client |-> c.client]
        ELSE IF fault.kind = "get"
        THEN [kind |-> "raised", text |-> <<APIError>>, index |-> 0,
              ops |-> <<Op("get", name_or_id, TRUE)>>, client |-> c.client]
        ELSE IF containers_get(name_or_id) = 0 \/ ~is_container_allowed(_config, name_or_id)
        THEN [kind |-> "None", text |-> <<>>, index |-> 0,
              ops |-> <<Op("get", name_or_id, FALSE)>>, client |-> c.client]
        ELSE [kind |-> "container", text |-> <<>>,
              index |-> containers_get(name_or_id),
              ops |-> <<Op("get", name_or_id, FALSE)>>, client |-> c.client]

\* get_container_by_name_or_id (docker_client.py:107-133).  kind is
\* "PermissionError", "raised" (with the exception's text), "None" (not
\* found) or "container" (with its place in the daemon's list); ops are the
\* daemon queries made.
get_container_by_name_or_id(name_or_id, fault) ==
    IF ~is_container_allowed(_config, name_or_id)
    THEN [kind |-> "PermissionError",
          text |-> <<"Container not allowed by filter: ", name_or_id>>,
          index |-> 0, ops |-> <<>>, client |-> _docker_client]
    ELSE LET c == get_docker_client(fault)
         IN  IF ~c.ok
             THEN [kind |-> "raised", text |-> <<ConnectError>>, index |-> 0,
                   ops |-> <<>>, client |-> c.client]
             ELSE IF fault.kind = "get"
             THEN [kind |-> "raised", text |-> <<APIError>>, index |-> 0,
                   ops |-> <<Op("get", name_or_id, TRUE)>>, client |-> c.client]
             ELSE IF containers_get(name_or_id) = 0
             THEN [kind |-> "None", text |-> <<>>, index |-> 0,
                   ops |-> <<Op("get", name_or_id, FALSE)>>, client |-> c.client]
             ELSE [kind |-> "container", text |-> <<>>,
                   index |-> containers_get(name_or_id),
                   ops |-> <<Op("get", name_or_id, FALSE)>>, client |-> c.client]

(***************************************************************************)
(* Audit log: utils/audit_logger.py                                        *)
(***************************************************************************)
\* AuditLogger.__init__ (audit_logger.py:19-32)
AuditLogger(config) == [t |-> "AuditLogger", audit_enabled |-> config.audit_enabled]

\* the entry log_operation builds (audit_logger.py:58-70); the timestamp is
\* left out.  details and error are None when the caller gives none.
Entry(operation, container, success, details, error) ==
    [operation |-> operation, container |-> container, user |-> "system",
     success |-> success, details |-> details, error |-> error]

\* a variant of log_operation that writes whether or not audit is enabled
log_operation_ignores_enabled(self, log, entry, write_ok) ==
    IF ~write_ok THEN [log |-> log, raised |-> FALSE]
    ELSE [log |-> Append(log, entry), raised |-> FALSE]

\* a variant of log_operation whose write is not inside a try block
log_operation_uncaught(self, log, entry, write_ok) ==
    IF ~self.audit_enabled THEN [log |-> log, raised |-> FALSE]
    ELSE IF ~write_ok THEN [log |-> log, raised |-> TRUE]
    ELSE [log |-> Append(log, entry), raised |-> FALSE]

\* AuditLogger.log_operation (audit_logger.py:34-77): the log file after the
\* call and whether an exception leaves the call; write_ok = FALSE where
\* open, json.dumps or write raises, which the except clause catches
log_operation(self, log, entry, write_ok) ==
    IF ~self.audit_enabled THEN [log |-> log, raised |-> FALSE]
    ELSE IF ~write_ok THEN [log |-> log, raised |-> FALSE]
    ELSE [log |-> Append(log, entry), raised |-> FALSE]

\* a variant of log_audit that falls back on a logger built from the
\* configuration while none is installed
log_audit_default_logger(log, entry, write_ok) ==
    IF _audit_logger # None THEN log_operation(_audit_logger, log, entry, write_ok)
    ELSE log_operation(AuditLogger(_config), log, entry, write_ok)

\* log_audit (audit_logger.py:100-111)
log_audit(log, entry, write_ok) ==
    IF _audit_logger # None THEN log_operation(_audit_logger, log, entry, write_ok)
    ELSE [log |-> log, raised |-> FALSE]

\* the log_audit calls of one handler invocation, in order.  An exception
\* out of log_audit ends the invocation: the except clause that catches it
\* calls log_audit again.
RECURSIVE log_audits(_, _, _)
log_audits(log, entries, write_ok) ==
    IF entries = <<>> THEN [log |-> log, raised |-> FALSE]
    ELSE LET w == log_audit(log, Head(entries), write_ok)
         IN  IF w.raised THEN w
             ELSE log_audits(w.log, Tail(entries), write_ok)

(***************************************************************************)
(* Tool handlers: server/tools/*.py                                        *)
(*                                                                         *)
(* A handler yields the string it returns (in fragments, as its f-string   *)
(* puts them together), the daemon and subprocess operations it made, the  *)
(* entries it handed to log_audit, and the daemon and the cached client    *)
(* it leaves behind.                                                       *)
(***************************************************************************)
H(result, ops, audits, daemon2, client) ==
    [result |-> result, ops |-> ops, audits |-> audits, daemon |-> daemon2,
     client |-> client, raised |-> FALSE]

\* an exception that no except clause of the handler catches
Uncaught(ops, audits, daemon2, client) ==
    [result |-> <<>>, ops |-> ops, audits |-> audits, daemon |-> daemon2,
     client |-> client, raised |-> TRUE]

\* container.labels.get(key): the label, or None
labels_get(container, key) ==
    IF key \in DOMAIN container.labels THEN Str(container.labels[key]) ELSE None

\* Python's `not value` for a label read with labels.get
falsy(value) == value = None \/ value = Str("")

with_status(d, i, status) == [d EXCEPT ![i].status = status]

InvalidPassword ==
    <<"Error: Invalid or missing password. Authentication required for this operation.">>

\* a variant of the password check without `not password`: the comparison
\* with the expected password alone
password_rejected_by_comparison(password) == password # AUTH_PASSWORD

\* `not password or password != expected_password`, with
\* expected_password = os.getenv('AUTH_PASSWORD', '')
password_rejected(password) == password = "" \/ password # AUTH_PASSWORD

\* a variant of start_container without its `except Exception` clause: what
\* the registry or the daemon raises leaves the handler
start_container_uncaught(container_name, fault) ==
    IF container_name = ""
    THEN H(<<"Error: container_name cannot be empty">>, <<>>, <<>>, daemon, _docker_client)
    ELSE LET r == get_container_by_name_or_id(container_name, fault)
             name == Str(container_name)
         IN  IF r.kind = "PermissionError"
             THEN H(<<"Error: ">> \o r.text, r.ops,
                    <<Entry("start", name, FALSE, None, Str(r.text))>>, daemon, r.client)
             ELSE IF r.kind = "raised"
             THEN Uncaught(r.ops, <<>>, daemon, r.client)
             ELSE IF r.kind = "None"
             THEN H(<<"Error: Container not found: ", container_name>>, r.ops,
                    <<Entry("start", name, FALSE, None, Str(<<"Container not found">>))>>,
                    daemon, r.client)
             ELSE IF daemon[r.index].status = "running"
             THEN H(<<"Container ", container_name, " is already running">>, r.ops,
                    <<Entry("start", name, TRUE, Dict("already_running" :> TRUE), None)>>,
                    daemon, r.client)
             ELSE IF raises(fault, daemon[r.index])
             THEN Uncaught(Append(r.ops, Op("start", daemon[r.index].name, TRUE)), <<>>,
                           daemon, r.client)
             ELSE H(<<"Successfully started container: ", container_name>>,
                    Append(r.ops, Op("start", daemon[r.index].name, FALSE)),
                    <<Entry("start", name, TRUE, None, None)>>,
                    with_status(daemon, r.index, "running"), r.client)

\* start_container (start_container.py:16-63)
start_container(container_name, fault) ==
    IF container_name = ""
    THEN H(<<"Error: container_name cannot be empty">>, <<>>, <<>>, daemon, _docker_client)
    ELSE LET r == get_container_by_name_or_id(container_name, fault)
             name == Str(container_name)
         IN  IF r.kind = "PermissionError"
             THEN H(<<"Error: ">> \o r.text, r.ops,
                    <<Entry("start", name, FALSE, None, Str(r.text))>>, daemon, r.client)
             ELSE IF r.kind = "raised"
             THEN H(<<"Error starting container: ">> \o r.text, r.ops,
                    <<Entry("start", name, FALSE, None, Str(r.text))>>, daemon, r.client)
             ELSE IF r.kind = "None"
             THEN H(<<"Error: Container not found: ", container_name>>, r.ops,
                    <<Entry("start", name, FALSE, None, Str(<<"Container not found">>))>>,
                    daemon, r.client)
             ELSE IF daemon[r.index].status = "running"
             THEN H(<<"Container ", container_name, " is already running">>, r.ops,
                    <<Entry("start", name, TRUE, Dict("already_running" :> TRUE), None)>>,
                    daemon, r.client)
             ELSE IF raises(fault, daemon[r.index])
             THEN H(<<"Error starting container: ", APIError>>,
                    Append(r.ops, Op("start", daemon[r.index].name, TRUE)),
                    <<Entry("start", name, FALSE, None, Str(<<APIError>>))>>,
                    daemon, r.client)
             ELSE H(<<"Successfully started container: ", container_name>>,
                    Append(r.ops, Op("start", daemon[r.index].name, FALSE)),
                    <<Entry("start", name, TRUE, None, None)>>,
                    with_status(daemon, r.index, "running"), r.client)

\* a variant of stop_container without the check of the current state: it
\* asks the daemon to stop the container whatever its status
stop_container_always_stops(container_name, password, timeout, fault) ==
    LET name == Str(container_name)
    IN  IF password_rejected(password)
        THEN H(InvalidPassword, <<>>,
               <<Entry("stop_container", name, FALSE, None,
                       Str(<<"Invalid or missing password">>))>>,
               daemon, _docker_client)
        ELSE IF container_name = ""
        THEN H(<<"Error: container_name cannot be empty">>, <<>>, <<>>, daemon, _docker_client)
        ELSE IF timeout < 0
        THEN H(<<"Error: timeout must be >= 0">>, <<>>, <<>>, daemon, _docker_client)
        ELSE LET r == get_container_by_name_or_id(container_name, fault)
             IN  IF r.kind = "PermissionError"
                 THEN H(<<"Error: ">> \o r.text, r.ops,
                        <<Entry("stop", name, FALSE, None, Str(r.text))>>, daemon, r.client)
                 ELSE IF r.kind = "raised"
                 THEN H(<<"Error stopping container: ">> \o r.text, r.ops,
                        <<Entry("stop", name, FALSE, None, Str(r.text))>>, daemon, r.client)
                 ELSE IF r.kind = "None"
                 THEN H(<<"Error: Container not found: ", container_name>>, r.ops,
                        <<Entry("stop", name, FALSE, None, Str(<<"Container not found">>))>>,
                        daemon, r.client)
                 ELSE IF raises(fault, daemon[r.index])
                 THEN H(<<"Error stopping container: ", APIError>>,
                        Append(r.ops, Op("stop", daemon[r.index].name, TRUE)),
                        <<Entry("stop", name, FALSE, None, Str(<<APIError>>))>>,
                        daemon, r.client)
                 ELSE H(<<"Successfully stopped container: ", container_name>>,
                        Append(r.ops, Op("stop", daemon[r.index].name, FALSE)),
                        <<Entry("stop", name, TRUE, Dict("timeout" :> timeout), None)>>,
                        with_status(daemon, r.index, "exited"), r.client)

\* stop_container (stop_container.py:19-77)
stop_container(container_name, password, timeout, fault) ==
    LET name == Str(container_name)
    IN  IF password_rejected(password)
        THEN H(InvalidPassword, <<>>,
               <<Entry("stop_container", name, FALSE, None,
                       Str(<<"Invalid or missing password">>))>>,
               daemon, _docker_client)
        ELSE IF container_name = ""
        THEN H(<<"Error: container_name cannot be empty">>, <<>>, <<>>, daemon, _docker_client)
        ELSE IF timeout < 0
        THEN H(<<"Error: timeout must be >= 0">>, <<>>, <<>>, daemon, _docker_client)
        ELSE LET r == get_container_by_name_or_id(container_name, fault)
             IN  IF r.kind = "PermissionError"
                 THEN H(<<"Error: ">> \o r.text, r.ops,
                        <<Entry("stop", name, FALSE, None, Str(r.text))>>, daemon, r.client)
                 ELSE IF r.kind = "raised"
                 THEN H(<<"Error stopping container: ">> \o r.text, r.ops,
                        <<Entry("stop", name, FALSE, None, Str(r.text))>>, daemon, r.client)
                 ELSE IF r.kind = "None"
                 THEN H(<<"Error: Container not found: ", container_name>>, r.ops,
                        <<Entry("stop", name, FALSE, None, Str(<<"Container not found">>))>>,
                        daemon, r.client)
                 ELSE IF daemon[r.index].status # "running"
                 THEN H(<<"Container ", container_name, " is not running (status: ",
                          daemon[r.index].status, ")">>, r.ops,
                        <<Entry("stop", name, TRUE, Dict("already_stopped" :> TRUE), None)>>,
                        daemon, r.client)
                 ELSE IF raises(fault, daemon[r.index])
                 THEN H(<<"Error stopping container: ", APIError>>,
                        Append(r.ops, Op("stop", daemon[r.index].name, TRUE)),
                        <<Entry("stop", name, FALSE, None, Str(<<APIError>>))>>,
                        daemon, r.client)
                 ELSE H(<<"Successfully stopped container: ", container_name>>,
                        Append(r.ops, Op("stop", daemon[r.index].name, FALSE)),
                        <<Entry("stop", name, TRUE, Dict("timeout" :> timeout), None)>>,
                        with_status(daemon, r.index, "exited"), r.client)

\* restart_container (restart_container.py:19-76)
restart_container(container_name, password, timeout, fault) ==
    LET name == Str(container_name)
    IN  IF password_rejected(password)
        THEN H(InvalidPassword, <<>>,
               <<Entry("restart_container", name, FALSE, None,
                       Str(<<"Invalid or missing password">>))>>,
               daemon, _docker_client)
        ELSE IF container_name = ""
        THEN H(<<"Error: container_name cannot be empty">>, <<>>, <<>>, daemon, _docker_client)
        ELSE IF timeout < 0
        THEN H(<<"Error: timeout must be >= 0">>, <<>>, <<>>, daemon, _docker_client)
        ELSE LET r == get_container_by_name_or_id(container_name, fault)
             IN  IF r.kind = "PermissionError"
                 THEN H(<<"Error: ">> \o r.text, r.ops,
                        <<Entry("restart", name, FALSE, None, Str(r.text))>>, daemon, r.client)
                 ELSE IF r.kind = "raised"
                 THEN H(<<"Error restarting container: ">> \o r.text, r.ops,
                        <<Entry("restart", name, FALSE, None, Str(r.text))>>, daemon, r.client)
                 ELSE IF r.kind = "None"
                 THEN H(<<"Error: Container not found: ", container_name>>, r.ops,
                        <<Entry("restart", name, FALSE, None, Str(<<"Container not found">>))>>,
                        daemon, r.client)
                 ELSE IF raises(fault, daemon[r.index])
                 THEN H(<<"Error restarting container: ", APIError>>,
                        Append(r.ops, Op("restart", daemon[r.index].name, TRUE)),
                        <<Entry("restart", name, FALSE, None, Str(<<APIError>>))>>,
                        daemon, r.client)
                 ELSE H(<<"Successfully restarted container: ", container_name>>,
                        Append(r.ops, Op("restart", daemon[r.index].name, FALSE)),
                        <<Entry("restart", name, TRUE, Dict("timeout" :> timeout), None)>>,
                        with_status(daemon, r.index, "running"), r.client)

\* a variant of stack_of that takes the running containers only, as
\* client.containers.list() without all=True gives them
RECURSIVE stack_of_running(_, _)
stack_of_running(project_name, i) ==
    IF i > Len(daemon) THEN <<>>
    ELSE IF /\ labels_get(daemon[i], "com.docker.compose.project") = project_name
            /\ daemon[i].status = "running"
    THEN <<i>> \o stack_of_running(project_name, i + 1)
    ELSE stack_of_running(project_name, i + 1)

\* the containers of client.containers.list(all=True) whose project label
\* equals project_name, in list order (restart_stack.py:65-71,
\* get_container_stack.py:57-62), by their places in the daemon's list
RECURSIVE stack_of(_, _)
stack_of(project_name, i) ==
    IF i > Len(daemon) THEN <<>>
    ELSE IF labels_get(daemon[i], "com.docker.compose.project") = project_name
    THEN <<i>> \o stack_of(project_name, i + 1)
    ELSE stack_of(project_name, i + 1)

service_of(container) ==
    IF "com.docker.compose.service" \in DOMAIN container.labels
    THEN container.labels["com.docker.compose.service"] ELSE "unknown"

\* a variant of the restart loop that stops at the first member whose
\* restart raises
RECURSIVE restart_loop_abort(_, _, _)
restart_loop_abort(stack_containers, fault, acc) ==
    IF stack_containers = <<>> THEN acc
    ELSE LET i == Head(stack_containers)
             c == daemon[i]
             line == <<"Restarting ", c.name, " (service: ", service_of(c), ")... ">>
             ops == Append(acc.ops, Op("restart", c.name, raises(fault, c)))
         IN  IF raises(fault, c)
             THEN [acc EXCEPT !.errors = Append(@, <<c.name, ": ", APIError>>),
                              !.lines = Append(@, line \o <<"Failed: ", APIError>>),
                              !.ops = ops]
             ELSE restart_loop_abort(Tail(stack_containers), fault,
                    [acc EXCEPT !.restarted = Append(@, c.name),
                                !.lines = Append(@, line \o <<"Success">>),
                                !.ops = ops,
                                !.daemon = with_status(@, i, "running")])

\* the restart loop (restart_stack.py:80-94) over the members still to do;
\* acc holds restarted, errors, the result lines, the operations and the
\* daemon so far
RECURSIVE restart_loop(_, _, _)
restart_loop(stack_containers, fault, acc) ==
    IF stack_containers = <<>> THEN acc
    ELSE LET i == Head(stack_containers)
             c == daemon[i]
             line == <<"Restarting ", c.name, " (service: ", service_of(c), ")... ">>
             ops == Append(acc.ops, Op("restart", c.name, raises(fault, c)))
         IN  IF raises(fault, c)
             THEN restart_loop(Tail(stack_containers), fault,
                    [acc EXCEPT !.errors = Append(@, <<c.name, ": ", APIError>>),
                                !.lines = Append(@, line \o <<"Failed: ", APIError>>),
                                !.ops = ops])
             ELSE restart_loop(Tail(stack_containers), fault,
                    [acc EXCEPT !.restarted = Append(@, c.name),
                                !.lines = Append(@, line \o <<"Success">>),
                                !.ops = ops,
                                !.daemon = with_status(@, i, "running")])

\* the "  - {error}" lines (restart_stack.py:102-105)
error_lines(errors) ==
    IF errors = <<>> THEN <<>>
    ELSE << <<"Errors:">> >> \o [k \in DOMAIN errors |-> <<"  - ">> \o errors[k]]

\* restart_stack (restart_stack.py:19-126)
restart_stack(container_name, password, timeout, fault) ==
    LET name == Str(container_name)
        failed(text, ops, client) ==
            H(<<"Error restarting stack: ">> \o text, ops,
              <<Entry("restart_stack", name, FALSE, None, Str(text))>>, daemon, client)
    IN  IF password_rejected(password)
        THEN H(InvalidPassword, <<>>,
               <<Entry("restart_stack", name, FALSE, None,
                       Str(<<"Invalid or missing password">>))>>,
               daemon, _docker_client)
        ELSE IF container_name = ""
        THEN H(<<"Error: container_name cannot be empty">>, <<>>, <<>>, daemon, _docker_client)
        ELSE IF ~get_docker_client(fault).ok
        THEN failed(<<ConnectError>>, <<>>, _docker_client)
        ELSE LET r == get_container_by_name_or_id(container_name, fault)
             IN  IF r.kind \in {"PermissionError", "raised"}
                 THEN failed(r.text, r.ops, get_docker_client(fault).client)
                 ELSE IF r.kind = "None"
                 THEN H(<<"Error: Container '", container_name, "' not found">>, r.ops,
                        <<Entry("restart_stack", name, FALSE, None,
                                Str(<<"Container not found">>))>>,
                        daemon, get_docker_client(fault).client)
                 ELSE LET project_name ==
                              labels_get(daemon[r.index], "com.docker.compose.project")
                      IN  IF falsy(project_name)
                          THEN H(<<"Error: Container '", container_name,
                                   "' is not part of a Docker Compose stack">>, r.ops,
                                 <<Entry("restart_stack", name, FALSE, None,
                                         Str(<<"Not a compose stack">>))>>,
                                 daemon, get_docker_client(fault).client)
                          ELSE IF fault.kind = "list"
                          THEN failed(<<APIError>>, Append(r.ops, Op("list", "all", TRUE)),
                                      get_docker_client(fault).client)
                          ELSE LET stack_containers == stack_of(project_name, 1)
                                   done == restart_loop(stack_containers, fault,
                                              [restarted |-> <<>>, errors |-> <<>>,
                                               lines |-> <<>>,
                                               ops |-> Append(r.ops, Op("list", "all", FALSE)),
                                               daemon |-> daemon])
                               IN  IF stack_containers = <<>>
                                   THEN H(<<"Error: No containers found in stack '",
                                            project_name.v, "'">>,
                                          Append(r.ops, Op("list", "all", FALSE)), <<>>,
                                          daemon, get_docker_client(fault).client)
                                   ELSE H(<< <<"Restarting Docker Compose stack: ",
                                               project_name.v>> >>
                                          \o done.lines
                                          \o << <<"Summary:">>,
                                                <<"  Total containers: ", Len(stack_containers)>>,
                                                <<"  Successfully restarted: ", Len(done.restarted)>>,
                                                <<"  Errors: ", Len(done.errors)>> >>
                                          \o error_lines(done.errors),
                                          done.ops,
                                          <<Entry("restart_stack", name, done.errors = <<>>,
                                                  Dict([project |-> project_name.v,
                                                        total |-> Len(stack_containers),
                                                        restarted |-> Len(done.restarted),
                                                        errors |-> Len(done.errors)]),
                                                  None)>>,
                                          done.daemon, get_docker_client(fault).client)

\* the service names of the pool, in the order Python's str comparison gives
ServiceOrder == <<"db", "proxy", "unknown", "web">>

\* sorted(stack_containers, key=lambda x: x['service'])
\* (get_container_stack.py:85): a stable sort by service name
RECURSIVE sorted_by_service(_, _)
sorted_by_service(stack_containers, k) ==
    IF k > Len(ServiceOrder) THEN <<>>
    ELSE SelectSeq(stack_containers,
                   LAMBDA i : service_of(daemon[i]) = ServiceOrder[k])
         \o sorted_by_service(stack_containers, k + 1)

\* get_container_stack (get_container_stack.py:19-103)
get_container_stack(container_name, fault) ==
    LET name == Str(container_name)
        client == get_docker_client(fault).client
        failed(text, ops) ==
            H(<<"Error getting stack info: ">> \o text, ops,
              <<Entry("get_container_stack", name, FALSE, None, Str(text))>>, daemon, client)
    IN  IF container_name = ""
        THEN H(<<"Error: container_name cannot be empty">>, <<>>, <<>>, daemon, _docker_client)
        ELSE IF ~get_docker_client(fault).ok
        THEN failed(<<ConnectError>>, <<>>)
        ELSE LET r == get_container_by_name_or_id(container_name, fault)
             IN  IF r.kind \in {"PermissionError", "raised"}
                 THEN failed(r.text, r.ops)
                 ELSE IF r.kind = "None"
                 THEN H(<<"Error: Container '", container_name, "' not found">>, r.ops,
                        <<Entry("get_container_stack", name, FALSE, None,
                                Str(<<"Container not found">>))>>,
                        daemon, client)
                 ELSE LET project_name ==
                              labels_get(daemon[r.index], "com.docker.compose.project")
                      IN  IF falsy(project_name)
                          THEN H(<<"Container '", container_name,
                                   "' is not part of a Docker Compose stack (no compose labels found)">>,
                                 r.ops,
                                 <<Entry("get_container_stack", name, TRUE, None, None)>>,
                                 daemon, client)
                          ELSE IF fault.kind = "list"
                          THEN failed(<<APIError>>, Append(r.ops, Op("list", "all", TRUE)))
                          ELSE LET stack_containers == stack_of(project_name, 1)
                               IN  H(<< <<"Container: ", daemon[r.index].name>>,
                                        <<"Project/Stack: ", project_name.v>> >>
                                     \o [k \in DOMAIN stack_containers |->
                                           LET sc == daemon[sorted_by_service(
                                                                stack_containers, 1)[k]]
                                           IN  <<sc.name, sc.status, sc.short_id>>]
                                     \o << <<"Total containers in stack: ",
                                             Len(stack_containers)>> >>,
                                     Append(r.ops, Op("list", "all", FALSE)),
                                     <<Entry("get_container_stack", name, TRUE,
                                             Dict([project |-> project_name.v,
                                                   containers |-> Len(stack_containers)]),
                                             None)>>,
                                     daemon, client)

\* container_status (container_status.py:20-94)
container_status(container_name, fault) ==
    IF container_name = ""
    THEN H(<<"Error: container_name cannot be empty">>, <<>>, <<>>, daemon, _docker_client)
    ELSE LET r == get_container_by_name_or_id(container_name, fault)
             name == Str(container_name)
         IN  IF r.kind = "PermissionError"
             THEN H(<<"Error: ">> \o r.text, r.ops,
                    <<Entry("get_status", name, FALSE, None, Str(r.text))>>, daemon, r.client)
             ELSE IF r.kind = "raised"
             THEN H(<<"Error getting container status: ">> \o r.text, r.ops,
                    <<Entry("get_status", name, FALSE, None, Str(r.text))>>, daemon, r.client)
             ELSE IF r.kind = "None"
             THEN H(<<"Error: Container not found: ", container_name>>, r.ops,
                    <<Entry("get_status", name, FALSE, None, Str(<<"Container not found">>))>>,
                    daemon, r.client)
             ELSE H(<<"Container Status: ", daemon[r.index].name,
                      "ID: ", daemon[r.index].short_id,
                      "Status: ", daemon[r.index].status>>, r.ops,
                    <<Entry("get_status", name, TRUE, None, None)>>, daemon, r.client)

\* get_container_logs (container_logs.py:19-94), since and timestamps at
\* their defaults
get_container_logs(container_name, tail, fault) ==
    IF container_name = ""
    THEN H(<<"Error: container_name cannot be empty">>, <<>>, <<>>, daemon, _docker_client)
    ELSE IF tail < 0
    THEN H(<<"Error: tail must be >= 0">>, <<>>, <<>>, daemon, _docker_client)
    ELSE LET r == get_container_by_name_or_id(container_name, fault)
             name == Str(container_name)
         IN  IF r.kind = "PermissionError"
             THEN H(<<"Error: ">> \o r.text, r.ops,
                    <<Entry("get_logs", name, FALSE, None, Str(r.text))>>, daemon, r.client)
             ELSE IF r.kind = "raised"
             THEN H(<<"Error getting container logs: ">> \o r.text, r.ops,
                    <<Entry("get_logs", name, FALSE, None, Str(r.text))>>, daemon, r.client)
             ELSE IF r.kind = "None"
             THEN H(<<"Error: Container not found: ", container_name>>, r.ops,
                    <<Entry("get_logs", name, FALSE, None, Str(<<"Container not found">>))>>,
                    daemon, r.client)
             ELSE IF raises(fault, daemon[r.index])
             THEN H(<<"Error getting container logs: ", APIError>>,
                    Append(r.ops, Op("logs", daemon[r.index].name, TRUE)),
                    <<Entry("get_logs", name, FALSE, None, Str(<<APIError>>))>>,
                    daemon, r.client)
             ELSE H(<<"Logs for ", container_name, ":">>,
                    Append(r.ops, Op("logs", daemon[r.index].name, FALSE)),
                    <<Entry("get_logs", name, TRUE,
                            Dict([tail |-> tail, since |-> ""]), None)>>,
                    daemon, r.client)

\* get_container_stats (container_stats.py:17-111)
get_container_stats(container_name, fault) ==
    IF container_name = ""
    THEN H(<<"Error: container_name cannot be empty">>, <<>>, <<>>, daemon, _docker_client)
    ELSE LET r == get_container_by_name_or_id(container_name, fault)
             name == Str(container_name)
         IN  IF r.kind = "PermissionError"
             THEN H(<<"Error: ">> \o r.text, r.ops,
                    <<Entry("get_stats", name, FALSE, None, Str(r.text))>>, daemon, r.client)
             ELSE IF r.kind = "raised"
             THEN H(<<"Error getting container stats: ">> \o r.text, r.ops,
                    <<Entry("get_stats", name, FALSE, None, Str(r.text))>>, daemon, r.client)
             ELSE IF r.kind = "None"
             THEN H(<<"Error: Container not found: ", container_name>>, r.ops,
                    <<Entry("get_stats", name, FALSE, None, Str(<<"Container not found">>))>>,
                    daemon, r.client)
             ELSE IF daemon[r.index].status # "running"
             THEN H(<<"Error: Cannot get stats for non-running container (status: ",
                      daemon[r.index].status, ")">>, r.ops,
                    <<Entry("get_stats", name, FALSE, None, Str(<<"Container not running">>))>>,
                    daemon, r.client)
             ELSE IF raises(fault, daemon[r.index])
             THEN H(<<"Error getting container stats: ", APIError>>,
                    Append(r.ops, Op("stats", daemon[r.index].name, TRUE)),
                    <<Entry("get_stats", name, FALSE, None, Str(<<APIError>>))>>,
                    daemon, r.client)
             ELSE H(<<"Resource Statistics: ", container_name>>,
                    Append(r.ops, Op("stats", daemon[r.index].name, FALSE)),
                    <<Entry("get_stats", name, TRUE, None, None)>>, daemon, r.client)

\* client.containers.list(all=all_containers): the running containers, or
\* every container, in the daemon's order
containers_list(all) ==
    SelectSeq(daemon, LAMBDA c : all \/ c.status = "running")

\* list_containers (list_containers.py:16-63)
list_containers(all_containers, fault) ==
    LET c == get_docker_client(fault)
        failed(text, ops) ==
            H(<<"Error listing containers: ">> \o text, ops,
              <<Entry("list_containers", None, FALSE, None, Str(text))>>, daemon, c.client)
    IN  IF ~c.ok THEN failed(<<ConnectError>>, <<>>)
        ELSE IF fault.kind = "list"
        THEN failed(<<APIError>>, <<Op("list", scope_of(all_containers), TRUE)>>)
        ELSE LET containers == filter_containers(_config, containers_list(all_containers))
             IN  H(IF containers = <<>> THEN <<"No containers found">>
                   ELSE [k \in DOMAIN containers |->
                           <<"Container: ", containers[k].name,
                             "ID: ", containers[k].short_id,
                             "Status: ", containers[k].status>>],
                   <<Op("list", scope_of(all_containers), FALSE)>>,
                   <<Entry("list_containers", None, TRUE,
                           Dict([all_containers |-> all_containers,
                                 count |-> Len(containers)]), None)>>,
                   daemon, c.client)

\* check_containers_health (container_health.py:19-89); no container of the
\* model defines a health check
check_containers_health(fault) ==
    LET c == get_docker_client(fault)
        failed(text, ops) ==
            H(<<"Error checking container health: ">> \o text, ops,
              <<Entry("check_health", None, FALSE, None, Str(text))>>, daemon, c.client)
    IN  IF ~c.ok THEN failed(<<ConnectError>>, <<>>)
        ELSE IF fault.kind = "list" THEN failed(<<APIError>>, <<Op("list", "all", TRUE)>>)
        ELSE LET containers == filter_containers(_config, containers_list(TRUE))
             IN  H(IF containers = <<>> THEN <<"No containers found">>
                   ELSE << <<"Total: ", Len(containers)>> >>
                        \o [k \in DOMAIN containers |->
                              <<containers[k].name, ": ", "no health check",
                                " (state: ", containers[k].status, ")">>],
                   <<Op("list", "all", FALSE)>>,
                   <<Entry("check_health", None, TRUE,
                           Dict([count |-> Len(containers)]), None)>>,
                   daemon, c.client)

\* list_stacks (list_stacks.py:18-111): no log_audit call on any path
list_stacks(fault) ==
    LET c == get_docker_client(fault)
    IN  IF ~c.ok
        THEN H(<<"Error listing stacks: ", ConnectError>>, <<>>, <<>>, daemon, c.client)
        ELSE IF fault.kind = "list"
        THEN H(<<"Error listing stacks: ", APIError>>, <<Op("list", "all", TRUE)>>, <<>>,
               daemon, c.client)
        ELSE IF daemon = <<>>
        THEN H(<<"No containers found on the system.">>, <<Op("list", "all", FALSE)>>, <<>>,
               daemon, c.client)
        ELSE H([k \in DOMAIN daemon |->
                  IF falsy(labels_get(daemon[k], "com.docker.compose.project"))
                  THEN <<"Standalone", daemon[k].name, daemon[k].status>>
                  ELSE <<"Stack: ", daemon[k].labels["com.docker.compose.project"],
                         service_of(daemon[k]), daemon[k].name, daemon[k].status>>],
               <<Op("list", "all", FALSE)>>, <<>>, daemon, c.client)

(***************************************************************************)
(* Compose tools: the docker-compose subprocess                            *)
(***************************************************************************)
\* The file system the compose tools look at: Path(project_path).exists()
\* and the presence of docker-compose.yml or docker-compose.yaml
path_exists(project_path) == project_path \in {"/srv/empty", "/srv/omni2", "/srv/yaml"}
compose_file_exists(project_path) == project_path \in {"/srv/omni2", "/srv/yaml"}

\* a compose tool after its own first checks (compose_up.py:30-90 and the
\* like lines of compose_down, compose_restart, compose_status): proc is
\* what subprocess.run does, "rc0", "rc1", "TimeoutExpired",
\* "FileNotFoundError" or "OSError"
compose_run(operation, project_path, cmd, details, proc, verb, limit, reports_rc) ==
    LET fail(result, error) ==
            H(result, <<Op("subprocess", cmd, TRUE)>>,
              <<Entry(operation, None, FALSE, None, Str(error))>>, daemon, _docker_client)
    IN  IF project_path = ""
        THEN H(<<"Error: project_path cannot be empty">>, <<>>, <<>>, daemon, _docker_client)
        ELSE IF ~path_exists(project_path)
        THEN H(<<"Error: Path not found: ", project_path>>, <<>>,
               <<Entry(operation, None, FALSE, None,
                       Str(<<"Path not found: ", project_path>>))>>,
               daemon, _docker_client)
        ELSE IF ~compose_file_exists(project_path)
        THEN H(<<"Error: docker-compose.yml not found in ", project_path>>, <<>>,
               <<Entry(operation, None, FALSE, None,
                       Str(<<"docker-compose.yml not found">>))>>,
               daemon, _docker_client)
        ELSE IF proc = "TimeoutExpired"
        THEN fail(<<"Error: docker-compose ", cmd[2], " command timed out", limit>>,
                  <<"Command timeout">>)
        ELSE IF proc = "FileNotFoundError"
        THEN fail(<<"Error: docker-compose command not found. Is Docker Compose installed?">>,
                  <<"docker-compose not installed">>)
        ELSE IF proc = "OSError"
        THEN fail(<<"Error running compose ", cmd[2], ": ", "OSError">>, <<"OSError">>)
        ELSE IF proc = "rc0" \/ ~reports_rc
        THEN H(<<"Successfully ", verb, " Docker Compose services in ", project_path>>,
               <<Op("subprocess", cmd, FALSE)>>,
               <<Entry(operation, None, TRUE, details, None)>>, daemon, _docker_client)
        ELSE H(<<"Error ", verb, " Docker Compose services:", "stderr">>,
               <<Op("subprocess", cmd, FALSE)>>,
               <<Entry(operation, None, FALSE, details, Str(<<"stderr">>))>>,
               daemon, _docker_client)

\* compose_up (compose_up.py:17-90)
compose_up(project_path, detached, build, proc) ==
    compose_run("compose_up", project_path,
                <<"docker-compose", "up">>
                    \o (IF detached THEN <<"-d">> ELSE <<>>)
                    \o (IF build THEN <<"--build">> ELSE <<>>),
                Dict([project_path |-> project_path, detached |-> detached, build |-> build]),
                proc, "started", " (exceeded 5 minutes)", TRUE)

\* a variant of compose_down that validates project_path before the
\* password
compose_down_password_last(project_path, password, remove_volumes, proc) ==
    IF project_path = ""
    THEN H(<<"Error: project_path cannot be empty">>, <<>>, <<>>, daemon, _docker_client)
    ELSE IF ~path_exists(project_path)
    THEN H(<<"Error: Path not found: ", project_path>>, <<>>,
           <<Entry("compose_down", None, FALSE, None,
                   Str(<<"Path not found: ", project_path>>))>>,
           daemon, _docker_client)
    ELSE IF password_rejected(password)
    THEN H(InvalidPassword, <<>>,
           <<Entry("compose_down", None, FALSE, None,
                   Str(<<"Invalid or missing password">>))>>,
           daemon, _docker_client)
    ELSE compose_run("compose_down", project_path,
                     <<"docker-compose", "down">>
                         \o (IF remove_volumes THEN <<"-v">> ELSE <<>>),
                     Dict([project_path |-> project_path,
                           remove_volumes |-> remove_volumes]),
                     proc, "stopped", " (exceeded 2 minutes)", TRUE)

\* compose_down (compose_down.py:20-97)
compose_down(project_path, password, remove_volumes, proc) ==
    IF password_rejected(password)
    THEN H(InvalidPassword, <<>>,
           <<Entry("compose_down", None, FALSE, None,
                   Str(<<"Invalid or missing password">>))>>,
           daemon, _docker_client)
    ELSE compose_run("compose_down", project_path,
                     <<"docker-compose", "down">>
                         \o (IF remove_volumes THEN <<"-v">> ELSE <<>>),
                     Dict([project_path |-> project_path,
                           remove_volumes |-> remove_volumes]),
                     proc, "stopped", " (exceeded 2 minutes)", TRUE)

\* compose_restart (compose_restart.py:20-90); services.split() of a string
\* of at most one service name
compose_restart(project_path, services, proc) ==
    compose_run("compose_restart", project_path,
                <<"docker-compose", "restart">>
                    \o (IF services # "" THEN <<services>> ELSE <<>>),
                Dict([project_path |-> project_path,
                      services |-> IF services # "" THEN services ELSE "all"]),
                proc, "restarted", " (exceeded 2 minutes)", TRUE)

\* compose_status (compose_status.py:18-77): success is logged whatever the
\* return code of docker-compose ps
compose_status(project_path, proc) ==
    compose_run("compose_status", project_path, <<"docker-compose", "ps">>,
                Dict([project_path |-> project_path]),
                proc, "status", "", FALSE)

(***************************************************************************)
(* Configuration validation: config.py                                     *)
(*                                                                         *)
(* A configuration is the value yaml.safe_load gives: a dict whose values  *)
(* are dicts, strings, numbers, booleans or None (a key written with       *)
(* nothing under it).                                                      *)
(***************************************************************************)
Bool(v) == [t |-> "bool", v |-> v]
Int12345 == [t |-> "int"]

\* Python's `key in value`: of a dict, whether it has the key; of None, a
\* TypeError
has_key(value, key) ==
    IF value.t = "dict" THEN [ok |-> TRUE, found |-> key \in DOMAIN value.items]
    ELSE [ok |-> FALSE, found |-> FALSE]

\* Python's truth value of the values above
truthy(value) ==
    IF value.t = "None" THEN FALSE
    ELSE IF value.t = "bool" THEN value.v
    ELSE IF value.t = "str" THEN value.v # <<>>
    ELSE IF value.t = "dict" THEN DOMAIN value.items # {}
    ELSE TRUE

\* str.strip() == '': nothing but whitespace
blank(text) == \A i \in DOMAIN text : text[i] = " "

\* validate_config (config.py:138-181): "True" where it returns True, or
\* the class of the exception it raises
validate_config(config) ==
    IF \E key \in {"server", "mcp", "security", "docker"} : key \notin DOMAIN config.items
    THEN "ValueError"
    ELSE IF ~has_key(config.items["server"], "port").ok THEN "TypeError"
    ELSE IF ~has_key(config.items["server"], "port").found THEN "ValueError"
    ELSE IF ~has_key(config.items["mcp"], "name").ok THEN "TypeError"
    ELSE IF ~has_key(config.items["mcp"], "name").found THEN "ValueError"
    ELSE IF ~has_key(config.items["security"], "authentication").ok THEN "TypeError"
    ELSE IF ~has_key(config.items["security"], "authentication").found THEN "ValueError"
    ELSE LET auth_config == config.items["security"].items["authentication"]
         IN  IF auth_config.t # "dict" THEN "AttributeError"
             ELSE LET enabled == dict_get(auth_config, "enabled", Bool(FALSE))
                      password == dict_get(auth_config, "password", Str(<<>>))
                  IN  IF truthy(enabled) /\ ~truthy(password) THEN "ValueError"
                      ELSE IF truthy(enabled) /\ password.t # "str" THEN "AttributeError"
                      ELSE IF truthy(enabled) /\ blank(password.v) THEN "ValueError"
                      ELSE IF ~has_key(config.items["docker"], "socket_path").ok
                      THEN "TypeError"
                      ELSE IF ~has_key(config.items["docker"], "socket_path").found
                      THEN "ValueError"
                      ELSE "True"

(***************************************************************************)
(* Bounds and input sets                                                   *)
(***************************************************************************)
MaxFilter == 2        \* longest whitelist or blacklist of the filter runs
MaxContainers == 3    \* most containers on the daemon
MaxAudit == 1         \* most entries in the audit log

\* sequences over S of length at most n
RECURSIVE SeqsUpTo(_, _)
SeqsUpTo(S, n) ==
    IF n = 0 THEN {<<>>}
    ELSE LET shorter == SeqsUpTo(S, n - 1)
         IN  shorter \cup {Append(q, x) : q \in {r \in shorter : Len(r) = n - 1}, x \in S}

Distinct(q) == \A i, j \in DOMAIN q : i # j => q[i] # q[j]

\* The containers a daemon may hold: two services of the Compose project
\* omni2, a container outside any project and one of another project
Container(name, id, short_id, status, labels) ==
    [name |-> name, id |-> id, short_id |-> short_id, status |-> status,
     labels |-> labels]
Pool ==
    <<Container("web", "1a2b3c4d5e6f", "1a2b3c", "running",
                ("com.docker.compose.project" :> "omni2")
                    @@ ("com.docker.compose.service" :> "web")),
      Container("db", "7a8b9c0d1e2f", "7a8b9c", "exited",
                ("com.docker.compose.project" :> "omni2")
                    @@ ("com.docker.compose.service" :> "db")),
      Container("cache", "3c4d5e6f7a8b", "3c4d5e", "running", <<>>),
      Container("proxy", "9f8e7d6c5b4a", "9f8e7d", "running",
                ("com.docker.compose.project" :> "edge")
                    @@ ("com.docker.compose.service" :> "proxy"))>>
Names == {Pool[i].name : i \in DOMAIN Pool}

\* the names the filter lists are written from
FilterNames == {"web", "db"}

\* the daemon lists: at most MaxContainers containers of the pool, each
\* once, in any order
Orders == {q \in SeqsUpTo(DOMAIN Pool, MaxContainers) : Distinct(q)}
Daemons == {[k \in DOMAIN q |-> Pool[q[k]]] : q \in Orders}

\* the identifiers a caller passes: nothing, a name on the daemon or not,
\* or the short ID of db
Identifiers == {"", "web", "db", "cache", "ghost", "7a8b9c"}

\* The configurations.  The fields are the settings the code reads, with
\* the defaults of its .get calls filled in.
Config(auth_enabled, password, permission_level, whitelist, blacklist, audit_enabled) ==
    [auth_enabled |-> auth_enabled, password |-> password,
     permission_level |-> permission_level, whitelist |-> whitelist,
     blacklist |-> blacklist, audit_enabled |-> audit_enabled]

Passwords == {<<"p">>, <<"p", "w">>}

\* validate_config (config.py:169-174): authentication enabled needs a
\* password
GateConfigs ==
    {c \in {Config(enabled, password, level, <<>>, <<>>, TRUE) :
                enabled \in BOOLEAN, password \in Passwords \cup {<<>>},
                level \in {"read-only", "full-control"}} :
        c.auth_enabled => c.password # <<>>}

FilterConfigs ==
    {Config(FALSE, <<>>, "full-control", whitelist, blacklist, TRUE) :
        whitelist \in SeqsUpTo(FilterNames, MaxFilter),
        blacklist \in SeqsUpTo(FilterNames, MaxFilter)}

\* the filter settings of the tool runs: none, a whitelist beside a
\* blacklist, a blacklist alone
ToolConfigs ==
    {Config(FALSE, <<>>, "full-control", filter[1], filter[2], TRUE) :
        filter \in {<< <<>>, <<>> >>, << <<"web">>, <<"db">> >>, << <<>>, <<"db">> >>}}

\* the audit settings of the audit runs
AuditConfigs ==
    {Config(FALSE, <<>>, "full-control", <<>>, <<>>, audit_enabled) :
        audit_enabled \in BOOLEAN}

(***************************************************************************)
(* The requests the gate is sent                                           *)
(***************************************************************************)
Tokens == Passwords \cup {<<>>, <<"x">>, <<XFF>>}
AuthorizationValues == Tokens \cup {Bearer \o token : token \in Tokens}
HeaderLists ==
    {<<>>, << <<"content-type", <<"j">>>> >>}
    \cup {<< <<"authorization", value>> >> : value \in AuthorizationValues}

Bodies ==
    {<<>>, <<"{oops">>, <<"[]">>, <<"{}">>,
     <<"{\"method\":\"tools/list\"}">>, <<"{\"method\":\"tools/call\"}">>,
     <<"{\"method\":\"tools/call\",\"params\":null}">>,
     <<"{\"method\":\"tools/call\",\"params\":{}}">>}
    \cup {tools_call(literal) :
            literal \in StringLiterals \cup {"[\"stop_container\"]", "null"}}

\* how a body reaches the server: in one message, in two, or cut short by
\* the client's disconnect
Streams(body) ==
    {<<HttpRequest(body, FALSE)>>}
    \cup (IF Len(body) < 2 THEN {}
          ELSE {<<HttpRequest(SubSeq(body, 1, 1), TRUE),
                  HttpRequest(SubSeq(body, 2, Len(body)), FALSE)>>,
                <<HttpRequest(SubSeq(body, 1, 1), TRUE), HttpDisconnect>>})

Scopes ==
    [type : {"http", "websocket"}, path : {"/healthz", "/health/deep", "/mcp"},
     headers : HeaderLists]

(***************************************************************************)
(* State machine                                                           *)
(***************************************************************************)
NoRequest == [status |-> "none"]
NoCall == [tool |-> "none"]
NoProbe == [fn |-> "none"]

\* The process after start-up: the configuration is loaded, the middleware
\* is built from it (server.py:203-209), no Docker client is cached and no
\* audit logger is installed (audit_logger.py:86)
\* no load_config is running and none has run since the import
NoLoad ==
    [pc |-> "idle", heap |-> <<>>, _config |-> 0, config |-> 0,
     env_config |-> [t |-> "absent"], raised |-> FALSE, loads |-> 0]

Started(configs, daemons, secrets) ==
    /\ _config \in configs
    /\ mw = AuthenticationMiddleware(_config)
    /\ gate = NoRequest
    /\ daemon \in daemons
    /\ _docker_client = None
    /\ AUTH_PASSWORD \in secrets
    /\ _audit_logger = None
    /\ auditLog = <<>>
    /\ call = NoCall
    /\ probe = NoProbe
    /\ loader = NoLoad

\* One request through the gate: the server calls the middleware with the
\* request's scope and receive channel.  gate keeps the request and what
\* became of it until the server is done with it.
Request ==
    /\ gate = NoRequest
    /\ \E scope \in Scopes, body \in Bodies :
         \E stream \in Streams(body) :
            gate' = [scope |-> scope, body |-> body, stream |-> stream]
                    @@ AuthenticationMiddleware_call(mw, scope, stream)
    /\ UNCHANGED <<_config, mw, daemon, _docker_client, AUTH_PASSWORD,
                   _audit_logger, auditLog, call, probe, loader>>

\* The server is done with the request
Served ==
    /\ gate # NoRequest
    /\ gate' = NoRequest
    /\ UNCHANGED <<_config, mw, daemon, _docker_client, AUTH_PASSWORD,
                   _audit_logger, auditLog, call, probe, loader>>

InitGate == Started(GateConfigs, {Pool}, {""})
NextGate == Request \/ Served
SpecGate == InitGate /\ [][NextGate]_vars

\* ConfigReloadHandler.on_modified (config.py:25-28): the watcher thread
\* calls load_config(reload=True), which binds config._config to the
\* configuration it reads from the changed files (config.py:81).  Nothing
\* else is touched: the middleware keeps the fields its constructor read.
Reload ==
    /\ \E config \in GateConfigs : _config' = config
    /\ UNCHANGED <<mw, gate, daemon, _docker_client, AUTH_PASSWORD,
                   _audit_logger, auditLog, call, probe, loader>>

\* The gate in a process whose configuration files change while it runs,
\* started with authentication on and the password 'p'
InitReload ==
    Started({c \in GateConfigs : c.auth_enabled /\ c.password = <<"p">>}, {Pool}, {""})
NextReload == Reload \/ Request \/ Served
SpecReload == InitReload /\ [][NextReload]_vars

\* Direct calls of the policy functions
Probe_is_container_allowed ==
    \E container_name \in Names \cup {"ghost"} :
        /\ probe' = [fn |-> "is_container_allowed", container_name |-> container_name,
                     result |-> is_container_allowed(_config, container_name)]
        /\ UNCHANGED <<_config, mw, gate, daemon, _docker_client, AUTH_PASSWORD,
                       _audit_logger, auditLog, call, loader>>

Probe_filter_containers ==
    \E all \in BOOLEAN :
        /\ probe' = [fn |-> "filter_containers", containers |-> containers_list(all),
                     result |-> filter_containers(_config, containers_list(all))]
        /\ UNCHANGED <<_config, mw, gate, daemon, _docker_client, AUTH_PASSWORD,
                       _audit_logger, auditLog, call, loader>>

InitFilter == Started(FilterConfigs, Daemons, {""})
NextFilter == Probe_is_container_allowed \/ Probe_filter_containers
SpecFilter == InitFilter /\ [][NextFilter]_vars

\* The inputs of the tool handlers
PasswordArguments == {"", "s3cret", "wrong"}
Secrets == {"", "s3cret"}
Timeouts == {-1, 10}
ProjectPaths == {"", "/srv/missing", "/srv/empty", "/srv/omni2"}
Procs == {"rc0", "rc1", "TimeoutExpired", "FileNotFoundError", "OSError"}
\* What the collaborators of a handler may do in the current state: kinds
\* are the calls the handler makes (the constructor of the client is only
\* called while none is cached), targets the containers it operates on
Faults(kinds, targets) ==
    {[kind |-> kind, failing |-> {}] :
        kind \in {"none"} \cup (kinds \ {"connect"})
                  \cup (IF _docker_client = None THEN {"connect"} ELSE {})}
    \cup {[kind |-> "op", failing |-> failing] : failing \in SUBSET targets \ {{}}}
DaemonNames == {daemon[i].name : i \in DOMAIN daemon}

\* whether the audit log can be written, where a logger would write it
WriteOutcomes ==
    IF _audit_logger # None /\ _audit_logger.audit_enabled THEN BOOLEAN ELSE {TRUE}

\* the daemon lists of the tool runs: none, or the first containers of the
\* pool
ToolDaemons ==
    {SubSeq(Pool, 1, n) :
        n \in {0, IF MaxContainers <= Len(Pool) THEN MaxContainers ELSE Len(Pool)}}

\* set_audit_logger (audit_logger.py:89-92), with a logger built from the
\* current configuration
set_audit_logger ==
    /\ call = NoCall
    /\ _audit_logger = None
    /\ _audit_logger' = AuditLogger(_config)
    /\ UNCHANGED <<_config, mw, gate, daemon, _docker_client, AUTH_PASSWORD,
                   auditLog, call, probe, loader>>

\* One invocation of a tool handler, from its call to its return: h is what
\* the handler does; write_ok is whether the audit log can be written.
\* call keeps the logger in place at the call, the number of entries the
\* invocation appended, whether a write of the log failed, and whether an
\* exception left the handler instead of a result.
Invoke(tool, args, h, write_ok) ==
    LET w == log_audits(auditLog, h.audits, write_ok)
        raised == h.raised \/ w.raised
    IN  /\ call = NoCall
        /\ Len(auditLog) < MaxAudit
        /\ auditLog' = w.log
        /\ daemon' = h.daemon
        /\ _docker_client' = h.client
        /\ call' = [tool |-> tool, args |-> args,
                    result |-> IF raised THEN <<>> ELSE h.result,
                    raised |-> raised, ops |-> h.ops,
                    audits |-> h.audits, logger |-> _audit_logger,
                    appended |-> Len(auditLog') - Len(auditLog),
                    write_failed |-> /\ _audit_logger # None
                                     /\ _audit_logger.audit_enabled
                                     /\ h.audits # <<>>
                                     /\ ~write_ok]
        /\ UNCHANGED <<_config, mw, gate, AUTH_PASSWORD, _audit_logger, probe, loader>>

\* The handler has returned
Return ==
    /\ call # NoCall
    /\ call' = NoCall
    /\ UNCHANGED <<_config, mw, gate, daemon, _docker_client, AUTH_PASSWORD,
                   _audit_logger, auditLog, probe, loader>>

StartContainer ==
    \E container_name \in Identifiers :
        \E fault \in Faults({"connect", "get"}, {container_name}),
           write_ok \in WriteOutcomes :
            Invoke("start_container", [container_name |-> container_name],
                   start_container(container_name, fault), write_ok)

StopContainer ==
    \E container_name \in Identifiers, password \in PasswordArguments,
       timeout \in Timeouts :
        \E fault \in Faults({"connect", "get"}, {container_name}),
           write_ok \in WriteOutcomes :
            Invoke("stop_container",
                   [container_name |-> container_name, password |-> password,
                    timeout |-> timeout],
                   stop_container(container_name, password, timeout, fault), write_ok)

RestartContainer ==
    \E container_name \in Identifiers, password \in PasswordArguments,
       timeout \in Timeouts :
        \E fault \in Faults({"connect", "get"}, {container_name}),
           write_ok \in WriteOutcomes :
            Invoke("restart_container",
                   [container_name |-> container_name, password |-> password,
                    timeout |-> timeout],
                   restart_container(container_name, password, timeout, fault), write_ok)

RestartStack ==
    \E container_name \in Identifiers, password \in PasswordArguments,
       timeout \in Timeouts, fault \in Faults({"connect", "get", "list"}, DaemonNames),
       write_ok \in WriteOutcomes :
        Invoke("restart_stack",
               [container_name |-> container_name, password |-> password,
                timeout |-> timeout],
               restart_stack(container_name, password, timeout, fault), write_ok)

GetContainerStack ==
    \E container_name \in Identifiers, fault \in Faults({"connect", "get", "list"}, {}),
       write_ok \in WriteOutcomes :
        Invoke("get_container_stack", [container_name |-> container_name],
               get_container_stack(container_name, fault), write_ok)

ContainerStatus ==
    \E container_name \in Identifiers, fault \in Faults({"connect", "get"}, {}),
       write_ok \in WriteOutcomes :
        Invoke("container_status", [container_name |-> container_name],
               container_status(container_name, fault), write_ok)

GetContainerLogs ==
    \E container_name \in Identifiers, tail \in {-1, 0, 100} :
        \E fault \in Faults({"connect", "get"}, {container_name}),
           write_ok \in WriteOutcomes :
            Invoke("get_container_logs",
                   [container_name |-> container_name, tail |-> tail],
                   get_container_logs(container_name, tail, fault), write_ok)

GetContainerStats ==
    \E container_name \in Identifiers :
        \E fault \in Faults({"connect", "get"}, {container_name}),
           write_ok \in WriteOutcomes :
            Invoke("get_container_stats", [container_name |-> container_name],
                   get_container_stats(container_name, fault), write_ok)

ListContainers ==
    \E all_containers \in BOOLEAN, fault \in Faults({"connect", "list"}, {}),
       write_ok \in WriteOutcomes :
        Invoke("list_containers", [all_containers |-> all_containers],
               list_containers(all_containers, fault), write_ok)

CheckContainersHealth ==
    \E fault \in Faults({"connect", "list"}, {}),
       write_ok \in WriteOutcomes :
        Invoke("check_containers_health", <<>>, check_containers_health(fault), write_ok)

ListStacks ==
    \E fault \in Faults({"connect", "list"}, {}),
       write_ok \in WriteOutcomes :
        Invoke("list_stacks", <<>>, list_stacks(fault), write_ok)

ComposeUp ==
    \E project_path \in ProjectPaths, detached \in BOOLEAN, build \in BOOLEAN,
       proc \in Procs, write_ok \in WriteOutcomes :
        Invoke("compose_up",
               [project_path |-> project_path, detached |-> detached, build |-> build],
               compose_up(project_path, detached, build, proc), write_ok)

ComposeDown ==
    \E project_path \in ProjectPaths, password \in PasswordArguments,
       remove_volumes \in BOOLEAN, proc \in Procs, write_ok \in WriteOutcomes :
        Invoke("compose_down",
               [project_path |-> project_path, password |-> password,
                remove_volumes |-> remove_volumes],
               compose_down(project_path, password, remove_volumes, proc), write_ok)

ComposeRestart ==
    \E project_path \in ProjectPaths, services \in {"", "web"}, proc \in Procs,
       write_ok \in WriteOutcomes :
        Invoke("compose_restart", [project_path |-> project_path, services |-> services],
               compose_restart(project_path, services, proc), write_ok)

ComposeStatus ==
    \E project_path \in ProjectPaths, proc \in Procs, write_ok \in WriteOutcomes :
        Invoke("compose_status", [project_path |-> project_path],
               compose_status(project_path, proc), write_ok)

InitTools == Started(ToolConfigs, ToolDaemons, Secrets)
NextTools ==
    \/ StartContainer
    \/ StopContainer
    \/ RestartContainer
    \/ RestartStack
    \/ GetContainerStack
    \/ ContainerStatus
    \/ GetContainerLogs
    \/ GetContainerStats
    \/ ListContainers
    \/ CheckContainersHealth
    \/ ListStacks
    \/ ComposeUp
    \/ ComposeDown
    \/ ComposeRestart
    \/ ComposeStatus
    \/ Return
SpecTools == InitTools /\ [][NextTools]_vars

\* The handlers in a process where a logger has been installed with
\* set_audit_logger
InitAudit == Started(AuditConfigs, ToolDaemons, Secrets)
NextAudit == set_audit_logger \/ NextTools
SpecAudit == InitAudit /\ [][NextAudit]_vars

\* The configurations validate_config is given.  A key may be left out
\* (Absent), written with nothing under it (None), or given a value.
Absent == [t |-> "absent"]
dict_of(choice) ==
    Dict([key \in {k \in DOMAIN choice : choice[k] # Absent} |-> choice[key]])

\* a section that needs the key `key`
Sections(key, value) ==
    {Absent, None, EmptyDict, Dict(key :> value)}

AuthenticationSettings ==
    {None}
    \cup {dict_of([enabled |-> enabled, password |-> password]) :
            enabled \in {Absent, Bool(TRUE), Bool(FALSE)},
            password \in {Absent, None, Int12345, Str(<<>>), Str(<<" ">>),
                          Str(<<"p">>), Str(<<" ", "p">>)}}

RawConfigs ==
    {dict_of([server |-> server, mcp |-> mcp, security |-> security, docker |-> docker]) :
        server \in Sections("port", Int12345),
        mcp \in Sections("name", Str(<<"m">>)),
        security \in {Absent, None, EmptyDict}
                      \cup {Dict("authentication" :> a) : a \in AuthenticationSettings},
        docker \in Sections("socket_path", Str(<<"/">>))}

\* A direct call of validate_config
Probe_validate_config ==
    \E config \in RawConfigs :
        /\ probe' = [fn |-> "validate_config", config |-> config,
                     result |-> validate_config(config)]
        /\ UNCHANGED <<_config, mw, gate, daemon, _docker_client, AUTH_PASSWORD,
                       _audit_logger, auditLog, call, loader>>

InitValidate == Started({Config(FALSE, <<>>, "full-control", <<>>, <<>>, TRUE)}, {Pool}, {""})
NextValidate == Probe_validate_config
SpecValidate == InitValidate /\ [][NextValidate]_vars

\* the entries of the direct calls of log_operation
AuditEntries ==
    {Entry("start", Str("web"), TRUE, None, None),
     Entry("stop", Str("db"), FALSE, None, Str(<<"Container not found">>))}

\* A direct call of AuditLogger.log_operation on a logger built from the
\* configuration, as server.py:179 builds one
Log_operation ==
    /\ call = NoCall
    /\ Len(auditLog) < MaxAudit
    /\ \E entry \in AuditEntries, write_ok \in BOOLEAN :
         LET self == AuditLogger(_config)
             w == log_operation(self, auditLog, entry, write_ok)
         IN  /\ auditLog' = w.log
             /\ probe' = [fn |-> "log_operation", self |-> self, entry |-> entry,
                          write_ok |-> write_ok, raised |-> w.raised,
                          before |-> auditLog, after |-> w.log]
    /\ UNCHANGED <<_config, mw, gate, daemon, _docker_client, AUTH_PASSWORD,
                   _audit_logger, call, loader>>

\* The audit logger called directly and by three of the handlers
InitLogger == Started(AuditConfigs, ToolDaemons, {"s3cret"})
NextLogger ==
    \/ set_audit_logger
    \/ Log_operation
    \/ StartContainer
    \/ StopContainer
    \/ ListContainers
    \/ Return
SpecLogger == InitLogger /\ [][NextLogger]_vars

(***************************************************************************)
(* Configuration loading and hot reload (SpecLoad)                         *)
(***************************************************************************)
\* SpecLoad keeps config._config as the dict the YAML files give, where the
\* other specifications keep the settings the code reads from that dict.
\* loader.heap holds the dicts load_config has built, by identity:
\* loader._config is the one the global is bound to, loader.config the one
\* the local variable of the running load_config is bound to (0: none).
MaxReloads == 2       \* most reloads the watcher starts

\* dict.update(other)
dict_update(d, other) ==
    Dict([key \in DOMAIN d.items \cup DOMAIN other.items |->
            IF key \in DOMAIN other.items THEN other.items[key] ELSE d.items[key]])

\* the merge loop of load_config (config.py:70-74): a dict of the overrides
\* updates the dict under the same key, any other value replaces it
merge(config, env_config) ==
    Dict([key \in DOMAIN config.items \cup DOMAIN env_config.items |->
            IF key \notin DOMAIN env_config.items THEN config.items[key]
            ELSE LET value == env_config.items[key]
                 IN  IF /\ value.t = "dict"
                        /\ key \in DOMAIN config.items
                        /\ config.items[key].t = "dict"
                     THEN dict_update(config.items[key], value)
                     ELSE value])

\* the text ${var_name:-default_value}; a variable's name is one element
Placeholder(var_name, default_value) ==
    <<"$", "{", var_name, ":", "-">> \o default_value \o <<"}">>

\* the text of an environment variable's value
chars(value) ==
    IF value = "s3cret" THEN <<"s", "3", "c", "r", "e", "t">> ELSE <<>>

\* os.getenv(var_name, default_value); the variable is unset where
\* AUTH_PASSWORD is ""
os_getenv(var_name, default_value) ==
    IF var_name = "AUTH_PASSWORD" /\ AUTH_PASSWORD # ""
    THEN chars(AUTH_PASSWORD)
    ELSE default_value

\* re.sub of \$\{([^}:]+)(?::-)([^}]+)?\} (config.py:93-100) on a text that
\* is one placeholder or has none: the ':-' is not optional, so ${VAR}
\* stays as it is
re_sub(text) ==
    IF /\ Len(text) >= 6
       /\ SubSeq(text, 1, 2) = <<"$", "{">>
       /\ text[3] \notin {"}", ":"}
       /\ SubSeq(text, 4, 5) = <<":", "-">>
       /\ text[Len(text)] = "}"
       /\ "}" \notin Range(SubSeq(text, 6, Len(text) - 1))
    THEN os_getenv(text[3], SubSeq(text, 6, Len(text) - 1))
    ELSE text

\* _expand_env_vars (config.py:86-104): a new dict for every dict
RECURSIVE _expand_env_vars(_)
_expand_env_vars(obj) ==
    IF obj.t = "dict"
    THEN Dict([k \in DOMAIN obj.items |-> _expand_env_vars(obj.items[k])])
    ELSE IF obj.t = "str" THEN Str(re_sub(obj.v))
    ELSE obj

\* yaml.safe_load(f) or {} (config.py:62)
or_empty(doc) == IF truthy(doc) THEN doc ELSE EmptyDict

\* what load_config builds of a base document and the overrides, from its
\* first line to its last (config.py:61-79)
load(doc, env_config) ==
    _expand_env_vars(IF env_config = Absent
                     THEN or_empty(doc)
                     ELSE merge(or_empty(doc), env_config))

\* settings.yaml with the sections validate_config asks for
SettingsFile(authentication) ==
    [status |-> "ok",
     doc |-> Dict([server |-> Dict("port" :> Int12345),
                   mcp |-> Dict("name" :> Str(<<"m">>)),
                   security |-> Dict("authentication" :> authentication),
                   docker |-> Dict("socket_path" :> Str(<<"/">>))])]

\* What the watcher may find as settings.yaml: no file, a file it cannot
\* open, a file that is not YAML, an empty file, and files whose
\* authentication section is off, on with a password, on with a password
\* from the environment, and on with an empty password
BaseFiles ==
    {[status |-> "missing"], [status |-> "unreadable"], [status |-> "unparsable"],
     [status |-> "ok", doc |-> None],
     SettingsFile(Dict("enabled" :> Bool(FALSE))),
     SettingsFile(Dict([enabled |-> Bool(TRUE), password |-> Str(<<"p", "w">>)])),
     SettingsFile(Dict([enabled |-> Bool(TRUE),
                        password |-> Str(Placeholder("AUTH_PASSWORD", <<"p">>))])),
     SettingsFile(Dict([enabled |-> Bool(TRUE), password |-> Str(<<>>)]))}

\* settings.{ENV}.yaml: Absent where ENV is 'default' or there is no such
\* file, else its document
EnvFiles ==
    {Absent,
     Dict("mcp" :> Dict("name" :> Str(<<"n">>))),
     Dict("security" :> Dict("permissions" :> Dict("level" :> Str(<<"r">>))))}

\* the settings the gate copies from a validated configuration at import
settings(config) ==
    LET auth_config == config.items["security"].items["authentication"]
    IN  Config(truthy(dict_get(auth_config, "enabled", Bool(FALSE))),
               dict_get(auth_config, "password", Str(<<>>)).v,
               "full-control", <<>>, <<>>, TRUE)

\* ConfigReloadHandler.on_modified (config.py:25-28): a YAML file of the
\* configuration directory changed and the watcher thread enters
\* load_config(reload=True)
on_modified ==
    /\ loader.pc = "idle"
    /\ loader.loads < MaxReloads
    /\ loader' = [loader EXCEPT !.pc = "base", !.loads = @ + 1, !.raised = FALSE]
    /\ UNCHANGED <<_config, mw, gate, daemon, _docker_client, AUTH_PASSWORD,
                   _audit_logger, auditLog, call, probe>>

\* a variant of Load_base that binds the global to the dict as soon as the
\* file is read, before the overrides and the expansion
Load_base_installs_on_read ==
    /\ loader.pc = "base"
    /\ \E file \in BaseFiles :
         IF file.status # "ok"
         THEN loader' = [loader EXCEPT !.pc = "idle", !.raised = TRUE]
         ELSE loader' = [loader EXCEPT !.pc = "overrides",
                                       !.heap = Append(@, or_empty(file.doc)),
                                       !.config = Len(loader.heap) + 1,
                                       !._config = Len(loader.heap) + 1]
    /\ _config' = loader'.heap[loader'._config]
    /\ UNCHANGED <<mw, gate, daemon, _docker_client, AUTH_PASSWORD,
                   _audit_logger, auditLog, call, probe>>

\* a variant of Load_base that installs an empty dict where the file cannot
\* be read
Load_base_clears_on_failure ==
    /\ loader.pc = "base"
    /\ \E file \in BaseFiles :
         IF file.status # "ok"
         THEN loader' = [loader EXCEPT !.pc = "idle", !.raised = TRUE,
                                       !.heap = Append(@, EmptyDict),
                                       !._config = Len(loader.heap) + 1]
         ELSE loader' = [loader EXCEPT !.pc = "overrides",
                                       !.heap = Append(@, or_empty(file.doc)),
                                       !.config = Len(loader.heap) + 1]
    /\ _config' = loader'.heap[loader'._config]
    /\ UNCHANGED <<mw, gate, daemon, _docker_client, AUTH_PASSWORD,
                   _audit_logger, auditLog, call, probe>>

\* load_config reads settings.yaml (config.py:57-62) and, where there is no
\* file or it cannot be read or parsed, raises out of load_config
Load_base ==
    /\ loader.pc = "base"
    /\ \E file \in BaseFiles :
         IF file.status # "ok"
         THEN loader' = [loader EXCEPT !.pc = "idle", !.raised = TRUE]
         ELSE loader' = [loader EXCEPT !.pc = "overrides",
                                       !.heap = Append(@, or_empty(file.doc)),
                                       !.config = Len(loader.heap) + 1]
    /\ _config' = loader'.heap[loader'._config]
    /\ UNCHANGED <<mw, gate, daemon, _docker_client, AUTH_PASSWORD,
                   _audit_logger, auditLog, call, probe>>

\* load_config merges the overrides into the dict it has just read
\* (config.py:65-76), in place
Load_overrides ==
    /\ loader.pc = "overrides"
    /\ loader' = [loader EXCEPT !.pc = "expand",
                                !.heap[loader.config] =
                                    IF loader.env_config = Absent THEN @
                                    ELSE merge(@, loader.env_config)]
    /\ _config' = loader'.heap[loader'._config]
    /\ UNCHANGED <<mw, gate, daemon, _docker_client, AUTH_PASSWORD,
                   _audit_logger, auditLog, call, probe>>

\* config = _expand_env_vars(config) (config.py:79): the local variable is
\* rebound to a new dict
Load_expand ==
    /\ loader.pc = "expand"
    /\ loader' = [loader EXCEPT !.pc = "assign",
                                !.heap = Append(@, _expand_env_vars(@[loader.config])),
                                !.config = Len(loader.heap) + 1]
    /\ _config' = loader'.heap[loader'._config]
    /\ UNCHANGED <<mw, gate, daemon, _docker_client, AUTH_PASSWORD,
                   _audit_logger, auditLog, call, probe>>

\* _config = config (config.py:81) and the return
Load_assign ==
    /\ loader.pc = "assign"
    /\ loader' = [loader EXCEPT !.pc = "idle", !._config = loader.config, !.config = 0]
    /\ _config' = loader'.heap[loader'._config]
    /\ UNCHANGED <<mw, gate, daemon, _docker_client, AUTH_PASSWORD,
                   _audit_logger, auditLog, call, probe>>

\* get_config() (config.py:107-109) in a thread that serves requests:
\* load_config() returns the cached dict (config.py:50-51).  probe keeps the
\* dict's identity, what it held, and where the watcher was.
Get_config ==
    /\ _config # None
    /\ probe' = [fn |-> "get_config", id |-> loader._config, result |-> _config,
                 pc |-> loader.pc, raised |-> loader.raised]
    /\ UNCHANGED <<_config, mw, gate, daemon, _docker_client, AUTH_PASSWORD,
                   _audit_logger, auditLog, call, loader>>

\* After the start-up sequence: the import has loaded the files and
\* lifespan has validated what it loaded (server.py:173-176)
InitLoad ==
    /\ AUTH_PASSWORD \in Secrets
    /\ \E env_config \in EnvFiles, file \in {f \in BaseFiles : f.status = "ok"} :
         /\ _config = load(file.doc, env_config)
         /\ validate_config(_config) = "True"
         /\ loader = [NoLoad EXCEPT !.heap = <<_config>>, !._config = 1,
                                    !.env_config = env_config]
    /\ mw = AuthenticationMiddleware(settings(_config))
    /\ gate = NoRequest
    /\ daemon = Pool
    /\ _docker_client = None
    /\ _audit_logger = None
    /\ auditLog = <<>>
    /\ call = NoCall
    /\ probe = NoProbe
NextLoad ==
    \/ on_modified
    \/ Load_base
    \/ Load_overrides
    \/ Load_expand
    \/ Load_assign
    \/ Get_config
SpecLoad == InitLoad /\ [][NextLoad]_vars

(***************************************************************************)
(* Properties of the authorization gate (SpecGate)                         *)
(***************************************************************************)
\* the credential of a request as the bytes the client sent: the
\* Authorization header without an optional leading 'Bearer '
credential_bytes(scope) ==
    LET header == headers_get(scope.headers, "authorization")
    IN  IF startswith(header, Bearer)
        THEN SubSeq(header, Len(Bearer) + 1, Len(header))
        ELSE header

\* an HTTP request outside the health-check paths has been handled
Gated ==
    /\ gate # NoRequest
    /\ gate.scope.type = "http"
    /\ gate.scope.path \notin {"/healthz", "/health/deep"}

\* C1: with authentication enabled, every HTTP request outside the health
\* paths whose credential is absent or differs from the configured password
\* is answered 401 and is not forwarded to the application.
C1_WrongCredentialUnauthorized ==
    (Gated /\ mw.auth_enabled /\ credential_bytes(gate.scope) # mw.password)
        => (gate.status = "401" /\ ~gate.forwarded)

\* the request carries a credential the gate accepts
CredentialAccepted ==
    mw.auth_enabled =>
        (token_of(gate.scope).ok /\ token_of(gate.scope).token = mw.password)

\* the control-tool set of the specification
ControlToolSet ==
    {"start_container", "stop_container", "restart_container", "restart_stack",
     "compose_up", "compose_down", "compose_restart"}

\* C2: in read-only mode, every tools/call request that names a tool of the
\* control-tool set and carries a valid credential is answered 403 and is
\* not forwarded.
C2_ReadOnlyForbidsControlTools ==
    (/\ Gated
     /\ mw.permission_level = "read-only"
     /\ CredentialAccepted
     /\ request_body(gate.stream).ok
     /\ gate.body \in {tools_call(tool) : tool \in ControlToolSet})
        => (gate.status = "403" /\ ~gate.forwarded)

\* C4: when the gate has read the body of a request and then calls the
\* application, the application reads the original body, once and
\* unmodified, from the channel it is handed.
C4_BodyDeliveredDownstream ==
    (/\ gate # NoRequest
     /\ gate.body_read
     /\ gate.forwarded
     /\ request_body(gate.stream).ok
     /\ gate.body # <<>>)
        => gate.downstream = [ok |-> TRUE, body |-> request_body(gate.stream).body]

(***************************************************************************)
(* Properties of the tool handlers (SpecTools, SpecAudit)                  *)
(***************************************************************************)
\* the operations that change a container or run docker-compose
Mutations(ops) ==
    {i \in DOMAIN ops : ops[i].op \in {"start", "stop", "restart", "subprocess"}}

\* the call supplied a password equal to the AUTH_PASSWORD secret
PasswordMatches ==
    /\ "password" \in DOMAIN call.args
    /\ call.args.password = AUTH_PASSWORD

\* C3: a call of a control tool that did not supply a password equal to
\* AUTH_PASSWORD performs no mutating daemon or subprocess operation.
C3_ControlToolsRequirePassword ==
    (call # NoCall /\ call.tool \in ControlToolSet /\ ~PasswordMatches)
        => Mutations(call.ops) = {}

\* C5: with an enabled audit logger in place and a writable log, every
\* handler invocation appends exactly one audit entry.
C5_OneAuditEntryPerInvocation ==
    (/\ call # NoCall
     /\ call.logger # None
     /\ call.logger.audit_enabled
     /\ ~call.write_failed)
        => call.appended = 1

(***************************************************************************)
(* Properties of the filter policy (SpecFilter)                            *)
(***************************************************************************)
\* C6: with a non-empty whitelist, is_container_allowed(n) is true exactly
\* when n is in the whitelist, and no blacklist changes the result.
C6_WhitelistDecides ==
    (probe.fn = "is_container_allowed" /\ _config.whitelist # <<>>)
        => /\ probe.result <=> (probe.container_name \in Range(_config.whitelist))
           /\ \A blacklist \in SeqsUpTo(FilterNames, MaxFilter) :
                is_container_allowed([_config EXCEPT !.blacklist = blacklist],
                                     probe.container_name) = probe.result

\* a name on both lists has been asked for
C6_Witness ==
    /\ probe.fn = "is_container_allowed"
    /\ probe.container_name \in Range(_config.whitelist)
    /\ probe.container_name \in Range(_config.blacklist)
    /\ probe.result

\* C7: with an empty whitelist, is_container_allowed(n) is true exactly when
\* n is not in the blacklist; with both lists empty every name is allowed.
C7_BlacklistDecides ==
    (probe.fn = "is_container_allowed" /\ _config.whitelist = <<>>)
        => /\ probe.result <=> (probe.container_name \notin Range(_config.blacklist))
           /\ _config.blacklist = <<>> => probe.result

\* a blacklisted name has been asked for with no whitelist
C7_Witness ==
    /\ probe.fn = "is_container_allowed"
    /\ _config.whitelist = <<>>
    /\ probe.container_name \in Range(_config.blacklist)
    /\ ~probe.result

\* C8: filter_containers(L) is the subsequence of L, in L's order, of the
\* containers whose name is_container_allowed accepts, and is L itself when
\* both lists are empty.
C8_FilterAgreesWithPolicy ==
    probe.fn = "filter_containers"
        => /\ probe.result =
                SelectSeq(probe.containers,
                          LAMBDA c : is_container_allowed(_config, c.name))
           /\ (_config.whitelist = <<>> /\ _config.blacklist = <<>>)
                => probe.result = probe.containers

\* the scenario of the specification: whitelist [web], blacklist [db], a
\* list of three containers of which only web is kept
C8_Witness ==
    /\ probe.fn = "filter_containers"
    /\ _config.whitelist = <<"web">>
    /\ _config.blacklist = <<"db">>
    /\ Len(probe.containers) = 3
    /\ \E i \in DOMAIN probe.containers : probe.containers[i].name = "db"
    /\ Len(probe.result) = 1
    /\ probe.result[1].name = "web"

(***************************************************************************)
(* Properties of container resolution and of restart_stack (SpecTools)     *)
(***************************************************************************)
SingleContainerTools ==
    {"start_container", "stop_container", "restart_container", "restart_stack",
     "get_container_stack", "container_status", "get_container_logs",
     "get_container_stats"}

\* what each single-container tool puts before the text of an exception
ErrorPrefix(tool) ==
    IF tool = "restart_stack" THEN "Error restarting stack: "
    ELSE IF tool = "get_container_stack" THEN "Error getting stack info: "
    ELSE "Error: "

\* the not-found result of each single-container tool
NotFoundResult(tool, container_name) ==
    IF tool \in {"restart_stack", "get_container_stack"}
    THEN <<"Error: Container '", container_name, "' not found">>
    ELSE <<"Error: Container not found: ", container_name>>

\* the last call is one of a single-container tool that went on to resolve
\* its container: its own checks of the arguments passed and, in the two
\* stack tools, it obtained the client
Resolved ==
    /\ call # NoCall
    /\ call.tool \in SingleContainerTools
    /\ call.args.container_name # ""
    /\ "password" \in DOMAIN call.args => ~password_rejected(call.args.password)
    /\ "timeout" \in DOMAIN call.args => call.args.timeout >= 0
    /\ "tail" \in DOMAIN call.args => call.args.tail >= 0
    /\ call.result # <<ErrorPrefix(call.tool), ConnectError>>

Restarts == SelectSeq(call.ops, LAMBDA o : o.op = "restart")

\* the last call is one of restart_stack that listed the stack's containers
StackRestarted ==
    /\ call # NoCall
    /\ call.tool = "restart_stack"
    /\ \E i \in DOMAIN call.ops : call.ops[i] = Op("list", "all", FALSE)

\* C10: restart_stack on a stack of N members of which k raise attempts the
\* restart of every member once, in list order, reports N, N - k and k,
\* names each failed member with its error text, and returns the aggregate.
C10_RestartStackContinuesOnError ==
    StackRestarted =>
        LET target == daemon[containers_get(call.args.container_name)]
            project == target.labels["com.docker.compose.project"]
            members == stack_of(Str(project), 1)
            N == Len(members)
            k == Cardinality({j \in DOMAIN Restarts : Restarts[j].raised})
        IN  /\ Len(Restarts) = N
            /\ \A j \in 1..N : Restarts[j].target = daemon[members[j]].name
            /\ call.result[1] = <<"Restarting Docker Compose stack: ", project>>
            /\ \E i \in DOMAIN call.result :
                    call.result[i] = <<"  Total containers: ", N>>
            /\ \E i \in DOMAIN call.result :
                    call.result[i] = <<"  Successfully restarted: ", N - k>>
            /\ \E i \in DOMAIN call.result :
                    call.result[i] = <<"  Errors: ", k>>
            /\ \A j \in 1..N :
                    Restarts[j].raised =>
                        \E i \in DOMAIN call.result :
                            call.result[i] = <<"  - ", Restarts[j].target, ": ", APIError>>
            /\ \A j \in 1..N :
                    ~Restarts[j].raised => daemon[members[j]].status = "running"
            /\ call.audits =
                    <<Entry("restart_stack", Str(call.args.container_name), k = 0,
                            Dict([project |-> project, total |-> N,
                                  restarted |-> N - k, errors |-> k]),
                            None)>>

\* a stack of two members has been restarted; the first member's restart
\* raised and the second's did not
C10_Witness ==
    /\ StackRestarted
    /\ Len(Restarts) = 2
    /\ Restarts[1].raised
    /\ ~Restarts[2].raised

(***************************************************************************)
(* Properties of the stack tools under the filter policy (SpecTools)       *)
(***************************************************************************)
\* the last call is one of get_container_stack that listed the stack
StackListed ==
    /\ call # NoCall
    /\ call.tool = "get_container_stack"
    /\ \E i \in DOMAIN call.ops : call.ops[i] = Op("list", "all", FALSE)

\* the member names get_container_stack returned: the lines between the
\* two heading lines and the closing count
MembersListed ==
    {call.result[i][1] : i \in 3..(Len(call.result) - 1)}

\* C11: restart_stack restarts no container, and get_container_stack lists
\* no container, whose name is_container_allowed rejects, even when that
\* container shares the Compose project of the container asked for.
C11_StackMembersFiltered ==
    /\ StackRestarted =>
            \A j \in DOMAIN Restarts : is_container_allowed(_config, Restarts[j].target)
    /\ StackListed =>
            \A name \in MembersListed : is_container_allowed(_config, name)

(***************************************************************************)
(* Further properties of the authorization gate (SpecGate)                 *)
(***************************************************************************)
\* an HTTP request to one of the health-check paths has been handled
HealthRequest ==
    /\ gate # NoRequest
    /\ gate.scope.type = "http"
    /\ gate.scope.path \in {"/healthz", "/health/deep"}

\* C12: a request to /healthz or /health/deep is handed to the application
\* with its receive channel untouched, whatever the configuration and the
\* credential.
C12_HealthPathsExempt ==
    HealthRequest =>
        /\ gate.status = "app"
        /\ gate.forwarded
        /\ ~gate.body_read
        /\ gate.downstream = forward(gate.stream)

\* a health request without a usable credential, whose body calls a control
\* tool, has been forwarded by a read-only gate with authentication enabled
C12_Witness ==
    /\ HealthRequest
    /\ mw.auth_enabled
    /\ mw.permission_level = "read-only"
    /\ credential_bytes(gate.scope) # mw.password
    /\ gate.body = tools_call("stop_container")
    /\ gate.forwarded

\* the body is a tools/call envelope that names a tool of the control-tool
\* set
NamesControlTool == gate.body \in {tools_call(tool) : tool \in ControlToolSet}

\* C13: in read-only mode, a request with an accepted credential whose body
\* is not a tools/call envelope naming a control tool is handed to the
\* application.
C13_ReadOnlyPassesOtherRequests ==
    (/\ Gated
     /\ mw.permission_level = "read-only"
     /\ CredentialAccepted
     /\ ~NamesControlTool)
        => (gate.status = "app" /\ gate.forwarded)

\* a read-only gate with authentication enabled has forwarded a call of
\* get_container_stack
C13_Witness ==
    /\ Gated
    /\ mw.auth_enabled
    /\ mw.permission_level = "read-only"
    /\ CredentialAccepted
    /\ gate.body = tools_call("get_container_stack")
    /\ request_body(gate.stream).ok
    /\ gate.forwarded

\* reading the body or looking into it raises: the client disconnects, the
\* body is not JSON, the document is not an object, or its params are not
\* an object
InspectionFails ==
    \/ ~request_body(gate.stream).ok
    \/ /\ gate.body # <<>>
       /\ \/ ~json_loads(gate.body).ok
          \/ json_loads(gate.body).value.t # "dict"
          \/ /\ dict_get(json_loads(gate.body).value, "method", None) = Str("tools/call")
             /\ dict_get(json_loads(gate.body).value, "params", EmptyDict).t # "dict"

\* C14: in read-only mode a request whose body cannot be read or parsed is
\* logged and handed to the application, and a 403 is only sent for a body
\* that was read whole and names a control tool.
C14_ParseFailureFailsOpen ==
    /\ (Gated /\ mw.permission_level = "read-only" /\ CredentialAccepted
            /\ InspectionFails)
          => (gate.status = "app" /\ gate.forwarded /\ gate.logged)
    /\ (gate # NoRequest /\ gate.status = "403")
          => (request_body(gate.stream).ok /\ NamesControlTool)

\* a read-only gate has forwarded a body that is not JSON
C14_Witness ==
    /\ Gated
    /\ mw.permission_level = "read-only"
    /\ CredentialAccepted
    /\ gate.body = <<"{oops">>
    /\ gate.forwarded
    /\ gate.logged

(***************************************************************************)
(* Properties of the audit log (SpecLogger)                                *)
(***************************************************************************)
\* C15: with audit disabled in the configuration no step changes the audit
\* log, whether log_operation is called directly or through log_audit by a
\* handler.
C15_DisabledAuditIsNoOp ==
    [][~_config.audit_enabled => auditLog' = auditLog]_vars

\* with audit disabled, log_operation has been called directly and a
\* handler has handed an entry to an installed logger
C15_Witness ==
    /\ ~_config.audit_enabled
    /\ probe.fn = "log_operation"
    /\ probe.write_ok
    /\ call # NoCall
    /\ call.logger # None
    /\ call.audits # <<>>
    /\ auditLog = <<>>

\* the last call made the daemon operation op and it did not raise
Succeeded(op) ==
    \E i \in DOMAIN call.ops : call.ops[i].op = op /\ ~call.ops[i].raised

\* C16: a write of the audit log that fails raises nothing to the caller of
\* log_operation and leaves the log as it was; the handler whose entry could
\* not be written returns its result, and a start or stop that the daemon
\* carried out is still reported as successful.
C16_AuditFailureNeverSurfaces ==
    /\ (probe.fn = "log_operation" /\ ~probe.write_ok)
          => (~probe.raised /\ probe.after = probe.before)
    /\ (call # NoCall /\ call.write_failed)
          => /\ ~call.raised
             /\ call.result # <<>>
             /\ call.appended = 0
             /\ Succeeded("start") =>
                    call.result = <<"Successfully started container: ",
                                    call.args.container_name>>
             /\ Succeeded("stop") =>
                    call.result = <<"Successfully stopped container: ",
                                    call.args.container_name>>

\* the daemon started a container and the entry of the start could not be
\* written
C16_Witness ==
    /\ call # NoCall
    /\ call.tool = "start_container"
    /\ call.write_failed
    /\ Succeeded("start")
    /\ \E i \in DOMAIN daemon :
            daemon[i].name = call.args.container_name /\ daemon[i].status = "running"

(***************************************************************************)
(* Properties of the handlers' results (SpecTools)                         *)
(***************************************************************************)
\* the invocation c went as far as holding the container it was asked for
Got(c) ==
    /\ c.ops # <<>>
    /\ c.ops[1] = Op("get", c.args.container_name, FALSE)
    /\ containers_get(c.args.container_name) # 0

\* the invocation c asked the daemon to do op
Asked(c, op) == \E i \in DOMAIN c.ops : c.ops[i].op = op

ErrorHeads ==
    {"Error starting container: ", "Error stopping container: ",
     "Error restarting container: ", "Error restarting stack: ",
     "Error getting stack info: ", "Error getting container status: ",
     "Error getting container logs: ", "Error getting container stats: ",
     "Error listing containers: ", "Error checking container health: ",
     "Error listing stacks: ", "Error: docker-compose ",
     "Error: docker-compose command not found. Is Docker Compose installed?",
     "Error running compose "}

\* a collaborator raised in the last call, other than a stack member whose
\* restart restart_stack counts and goes on from
CollaboratorRaised ==
    \E i \in DOMAIN call.ops :
        /\ call.ops[i].raised
        /\ call.ops[i].op = "restart" => call.tool = "restart_container"

\* C19: every handler invocation ends with a returned result, never with an
\* exception that leaves the handler, and when the registry, the daemon or
\* docker-compose raised, the result is the handler's error text.
C19_HandlersReturnResults ==
    call # NoCall =>
        /\ ~call.raised
        /\ call.result # <<>>
        /\ CollaboratorRaised => call.result[1] \in ErrorHeads

\* the daemon refused to start a container and start_container returned
\* the error
C19_Witness ==
    /\ call # NoCall
    /\ call.tool = "start_container"
    /\ \E i \in DOMAIN call.ops : call.ops[i].op = "start" /\ call.ops[i].raised
    /\ call.result = <<"Error starting container: ", APIError>>

(***************************************************************************)
(* Properties of configuration validation (SpecValidate)                   *)
(***************************************************************************)
\* the value under path[1], path[2], ... of a configuration, or Absent
RECURSIVE lookup(_, _)
lookup(value, path) ==
    IF path = <<>> THEN value
    ELSE IF value.t # "dict" THEN Absent
    ELSE IF Head(path) \notin DOMAIN value.items THEN Absent
    ELSE lookup(value.items[Head(path)], Tail(path))

\* the configurations the specification calls valid: the four sections and
\* the four keys are there and, where authentication.enabled is true, the
\* password is a string that is not empty once stripped
ValidConfiguration(config) ==
    /\ \A section \in {"server", "mcp", "security", "docker"} :
            lookup(config, <<section>>) # Absent
    /\ lookup(config, <<"server", "port">>) # Absent
    /\ lookup(config, <<"mcp", "name">>) # Absent
    /\ lookup(config, <<"security", "authentication">>) # Absent
    /\ lookup(config, <<"docker", "socket_path">>) # Absent
    /\ lookup(config, <<"security", "authentication", "enabled">>) = Bool(TRUE) =>
            LET password == lookup(config, <<"security", "authentication", "password">>)
            IN  password.t = "str" /\ ~blank(password.v)

\* C18: validate_config returns True exactly for the valid configurations
\* and raises ValueError for every other one.
C18_ValidateConfigDecides ==
    probe.fn = "validate_config" =>
        /\ ValidConfiguration(probe.config) => probe.result = "True"
        /\ ~ValidConfiguration(probe.config) => probe.result = "ValueError"

(***************************************************************************)
(* Properties of the gate under hot reload (SpecReload)                    *)
(***************************************************************************)
\* C20: a request is decided against the configuration that is live when
\* the request starts: what the gate does with it is what a gate holding
\* the settings of config._config at that moment does.
C20_RequestDecidedOnLiveSnapshot ==
    [][(gate = NoRequest /\ gate' # NoRequest) =>
            gate' = [scope |-> gate'.scope, body |-> gate'.body, stream |-> gate'.stream]
                    @@ AuthenticationMiddleware_call(AuthenticationMiddleware(_config),
                                                     gate'.scope, gate'.stream)
      ]_vars

(***************************************************************************)
(* Properties of configuration loading (SpecLoad)                          *)
(***************************************************************************)
\* C21: whenever requests are served, after any number of hot reloads, the
\* configuration get_config returns is a valid one: the required keys are
\* there and enabled authentication has a password that is not empty.
C21_ServedConfigurationValid ==
    ValidConfiguration(_config)

\* the snapshots load_config builds from start to end of the files the
\* watcher may find
CompleteSnapshots ==
    {load(file.doc, loader.env_config) : file \in {f \in BaseFiles : f.status = "ok"}}

\* C22: a get_config call that runs while the watcher reloads returns a
\* complete snapshot (base file loaded, overrides merged, variables
\* expanded), the previous one until the new one is installed, and no
\* later reload changes the dict the caller was given.
C22_ReadersSeeCompleteSnapshots ==
    probe.fn = "get_config" =>
        /\ probe.result \in CompleteSnapshots
        /\ probe.pc # "idle" => probe.id # loader.config
        /\ loader.heap[probe.id] = probe.result

\* a reader was given the configuration while a reload was between reading
\* and installing, and the reload has since installed another one
C22_Witness ==
    /\ probe.fn = "get_config"
    /\ probe.pc \in {"overrides", "expand", "assign"}
    /\ loader.pc = "idle"
    /\ loader._config # probe.id
    /\ _config # probe.result

\* C30: a reload that raises because settings.yaml is missing, unreadable or
\* not YAML leaves the installed configuration as it was, and get_config
\* without reload returns the cached dict and touches no file.
C30_FailedReloadKeepsSnapshot ==
    [][/\ (loader.pc = "base" /\ loader'.raised) =>
            /\ _config' = _config
            /\ loader'._config = loader._config
            /\ loader'.heap = loader.heap
       /\ (probe' # probe) =>
            /\ probe'.result = _config
            /\ probe'.id = loader._config
            /\ loader' = loader
            /\ _config' = _config
      ]_vars

\* a reload has raised and a reader has been given the configuration since
C30_Witness ==
    /\ probe.fn = "get_config"
    /\ probe.raised
    /\ loader.loads > 0
    /\ probe.result = loader.heap[1]

(***************************************************************************)
(* Properties of stack resolution (SpecTools)                              *)
(***************************************************************************)
\* the last call is one of a stack tool that found its seed container on
\* the daemon
SeedResolved ==
    /\ call # NoCall
    /\ call.tool \in {"restart_stack", "get_container_stack"}
    /\ call.ops # <<>>
    /\ call.ops[1] = Op("get", call.args.container_name, FALSE)
    /\ containers_get(call.args.container_name) # 0

Seed == daemon[containers_get(call.args.container_name)]

\* the names of the daemon's containers, running or not, that carry the
\* seed's project label
ProjectMembers ==
    {daemon[i].name :
        i \in {j \in DOMAIN daemon :
                /\ "com.docker.compose.project" \in DOMAIN daemon[j].labels
                /\ daemon[j].labels["com.docker.compose.project"]
                       = Seed.labels["com.docker.compose.project"]}}

\* the not-in-stack result of each stack tool
NotInStack ==
    IF call.tool = "restart_stack"
    THEN <<"Error: Container '", call.args.container_name,
           "' is not part of a Docker Compose stack">>
    ELSE <<"Container '", call.args.container_name,
           "' is not part of a Docker Compose stack (no compose labels found)">>

\* C23: a seed without a com.docker.compose.project label gives the
\* not-in-stack result and nothing is listed or restarted; for a seed with
\* one, the members are exactly the daemon's containers, running or
\* stopped, whose project label equals the seed's.
C23_StackMembersByProjectLabel ==
    SeedResolved =>
        IF "com.docker.compose.project" \notin DOMAIN Seed.labels
        THEN /\ call.result = NotInStack
             /\ Len(call.ops) = 1
             /\ Restarts = <<>>
        ELSE /\ StackRestarted =>
                    /\ {Restarts[j].target : j \in DOMAIN Restarts} = ProjectMembers
                    /\ Len(Restarts) = Cardinality(ProjectMembers)
             /\ StackListed =>
                    /\ MembersListed = ProjectMembers
                    /\ Len(call.result) = Cardinality(ProjectMembers) + 3
             /\ (StackRestarted \/ StackListed
                    \/ call.ops[Len(call.ops)] = Op("list", "all", TRUE))

\* a stack with a stopped member has been listed from its running member,
\* and so has been restarted
C23_Witness ==
    /\ SeedResolved
    /\ call.tool = "get_container_stack"
    /\ Seed.name = "web"
    /\ MembersListed = {"web", "db"}
    /\ \E i \in DOMAIN daemon : daemon[i].name = "db" /\ daemon[i].status = "exited"

(***************************************************************************)
(* Properties of the filter policy under every identifier (SpecTools)      *)
(***************************************************************************)
\* the daemon operations a single-container tool makes on the container it
\* has resolved
ContainerOperations == {"start", "stop", "restart", "logs", "stats"}

\* C24: no tool that works on one container operates on a container whose
\* name the filter policy excludes, whether the caller names it or passes
\* its short ID or its full ID.
C24_ExcludedContainerNeverOperatedOn ==
    (call # NoCall /\ call.tool \in SingleContainerTools
                        \ {"restart_stack", "get_container_stack"})
        => \A i \in DOMAIN call.ops :
                call.ops[i].op \in ContainerOperations
                    => is_container_allowed(_config, call.ops[i].target)

(***************************************************************************)
(* Properties of the per-call password (SpecTools)                         *)
(***************************************************************************)
PasswordGatedTools ==
    {"stop_container", "restart_container", "restart_stack", "compose_down"}

\* C25: a call of stop_container, restart_container, restart_stack or
\* compose_down whose password is empty or is not the expected one looks up
\* no container, calls neither the daemon nor a subprocess, makes one audit
\* call, with success false, returns the invalid-password error and leaves
\* the daemon and the cached client as they were.
C25_RejectedPasswordDoesNothing ==
    [][(/\ call = NoCall
        /\ call' # NoCall
        /\ call'.tool \in PasswordGatedTools
        /\ (call'.args.password = "" \/ call'.args.password # AUTH_PASSWORD))
            => /\ call'.ops = <<>>
               /\ Len(call'.audits) = 1
               /\ ~call'.audits[1].success
               /\ call'.audits[1].error = Str(<<"Invalid or missing password">>)
               /\ call'.result = InvalidPassword
               /\ ~call'.raised
               /\ daemon' = daemon
               /\ _docker_client' = _docker_client
      ]_vars

\* restart_stack has been called with a wrong password for a running
\* member of a stack, and compose_down with none for a project that exists
C25_Witness ==
    /\ call # NoCall
    /\ AUTH_PASSWORD = "s3cret"
    /\ \/ /\ call.tool = "restart_stack"
          /\ call.args.password = "wrong"
          /\ call.args.container_name = "web"
          /\ call.result = InvalidPassword
       \/ /\ call.tool = "compose_down"
          /\ call.args.password = ""
          /\ call.args.project_path = "/srv/omni2"
          /\ call.result = InvalidPassword

\* C26: while AUTH_PASSWORD is unset or empty, a password-gated tool rejects
\* every call, the one with the empty password too, and performs nothing.
C26_NoExpectedPasswordRejectsAll ==
    (call # NoCall /\ call.tool \in PasswordGatedTools /\ AUTH_PASSWORD = "")
        => /\ call.result = InvalidPassword
           /\ call.ops = <<>>
           /\ \A i \in DOMAIN call.audits : ~call.audits[i].success

\* with AUTH_PASSWORD empty, stop_container has been called with the empty
\* password for a running container, which is still running
C26_Witness ==
    /\ call # NoCall
    /\ AUTH_PASSWORD = ""
    /\ call.tool = "stop_container"
    /\ call.args.password = ""
    /\ call.args.container_name = "web"
    /\ \E i \in DOMAIN daemon : daemon[i].name = "web" /\ daemon[i].status = "running"

(***************************************************************************)
(* Properties of the order of the gate's checks (SpecGate)                 *)
(***************************************************************************)
\* C27: with authentication enabled and level read-only, a request whose
\* credential is wrong or absent is answered 401 with its body unread; a
\* 403 is only sent for a request whose credential was accepted or not
\* asked for; and every request ends in exactly one of a 401, a 403 or a
\* forwarding to the application.
C27_AuthenticationBeforePermission ==
    /\ (/\ Gated
        /\ mw.auth_enabled
        /\ mw.permission_level = "read-only"
        /\ credential_bytes(gate.scope) # mw.password)
            => (gate.status = "401" /\ ~gate.body_read)
    /\ (gate # NoRequest /\ gate.status = "403") => CredentialAccepted
    /\ gate # NoRequest =>
            /\ gate.status \in {"401", "403", "app"}
            /\ gate.forwarded <=> gate.status = "app"

\* a connection whose scope type is not 'http' has been handled
OtherScope ==
    /\ gate # NoRequest
    /\ gate.scope.type # "http"

\* C28: a connection whose ASGI scope type is not 'http' is handed to the
\* application with its receive channel untouched, without a credential or
\* permission check, whatever the configuration.
C28_NonHttpScopesForwarded ==
    OtherScope =>
        /\ gate.status = "app"
        /\ gate.forwarded
        /\ ~gate.body_read
        /\ gate.downstream = forward(gate.stream)

\* a websocket connection to /mcp without the password, whose first message
\* calls a control tool, has been forwarded by a read-only gate with
\* authentication enabled
C28_Witness ==
    /\ OtherScope
    /\ gate.scope.type = "websocket"
    /\ gate.scope.path = "/mcp"
    /\ mw.auth_enabled
    /\ mw.permission_level = "read-only"
    /\ credential_bytes(gate.scope) # mw.password
    /\ gate.body = tools_call("stop_container")
    /\ gate.forwarded

====
